------------------------- MODULE TurnHandlingProofs --------------------------
(***************************************************************************)
(* Proofs that a turn publishes what it has committed, is silent about     *)
(* what was cancelled and settles every child it delegated, for any turns  *)
(* and any number of items.                                                *)
(*                                                                         *)
(* The invariant TInv is a conjunction over the turns, so that a step is   *)
(* proved for the turn it belongs to; every other turn it leaves alone, or *)
(* only cancels (Apart).  A commit loop works on a session that is not yet *)
(* the state's: what holds of an item is stated of any session (ItemOK).   *)
(***************************************************************************)
EXTENDS TurnHandling, WellFoundedInduction, TLAPS

\* The work items a turn can have.
Items(t) == {t} \X (0..MaxItems)

\* Where a turn's task can be.
Places == {"none", "routing", "acking", "deciding", "waiting", "speaking", "stopping",
           "unwinding", "ended", "over"}

\* Before the turn collects its work, and while a cancellation would still keep
\* it from collecting.
Uncollected == {"none", "routing", "acking", "deciding", "waiting", "stopping", "unwinding"}
OnTheWay == {"routing", "acking", "deciding", "waiting"}

\* A turn that has not been routed, or only to cancel, has no work; one that has
\* not begun is not in the ledger either.
Fresh(t) ==
  /\ pc[t] \in {"none", "routing", "stopping"} =>
        /\ children[t] = {}
        /\ \A i \in Items(t) : s.status[i] = "none" /\ task[i] = "none"
  /\ pc[t] = "none" =>
        \A i \in Items(t) : i \notin s.known \cup s.cancelled

\* The ledger holds a turn's task, under the turn's own id, while it runs, and a
\* cancellation is on its way only to such a turn.
Registered(t) ==
  /\ \A i \in Items(t) : i \in s.turnTasks <=> i = Own(t) /\ pc[t] \notin {"none", "over"}
  /\ t \in asked => pc[t] \notin {"none", "over"}

\* Nothing is retained or held back before the turn collects.
NothingHeld(t) ==
  pc[t] \in Uncollected =>
    /\ open[t] = {}
    /\ \A i \in Items(t) : i \notin late \cup callback /\ deferred[i] = "none"

\* A turn's children, and what it owns and leaves open, are items of its own.
Belongs(t, x) ==
  /\ children[t] \subseteq Items(t) /\ x.owned[t] \subseteq children[t]
  /\ open[t] \subseteq children[t]
  /\ kind[t] = "single" => children[t] \subseteq {Own(t)}

\* How far the children of a turn on its way are.
Progress(t) ==
  /\ pc[t] \in {"acking", "deciding"} =>
        \A i \in children[t] : s.status[i] \in {"routing", "searching"}
  /\ pc[t] = "waiting" \/ (pc[t] = "acking" /\ kind[t] = "single") =>
        \A i \in children[t] : s.status[i] = "searching"
  /\ pc[t] = "deciding" \/ (pc[t] = "acking" /\ kind[t] # "single") =>
        \A i \in Items(t) : task[i] = "none"
  /\ pc[t] = "deciding" =>
        /\ index[t] >= 1 /\ kind[t] = "multi"
        /\ \A n \in 1..MaxItems : n >= index[t] =>
              <<t, n>> \notin children[t] /\ s.status[<<t, n>>] = "none"

\* A cancelled item of a turn on its way: the turn's task has been asked to
\* stop, or the item's.
CancelReaches(t) ==
  pc[t] \in OnTheWay =>
    \A i \in Items(t) : i \in s.cancelled => t \in asked \/ i \in stopping

\* An item, in the session x: ready means committed, now and at the commit to
\* come; retained work that was not asked to stop is open, with no status held
\* back and none that is final; open work will be settled or is, and released.
\* Only what was answered in time, or is no longer retained, is an answer to
\* commit or a committed one: no late result is a duplicate.
ItemOK(x, i) ==
  /\ x.status[i] = "result_ready" => "answer" \in x.committed[i]
  /\ deferred[i] = "result_ready" => result[i] = "answer"
  /\ i \in children[TurnOf(i)] => x.status[i] # "none"
  /\ Outlives(i) => x.status[i] \notin {"none", "routing"}
  /\ i \in callback => task[i] \in {"answered", "failed", "cancelled"}
  /\ i \in late /\ i \notin stopping =>
        i \in open[TurnOf(i)] /\ deferred[i] = "none" /\ x.status[i] \notin Terminal
  /\ i \in open[TurnOf(i)] =>
        Outlives(i) \/ (x.status[i] \in Terminal /\ i \notin x.owned[TurnOf(i)])
  /\ result[i] = "answer" \/ "answer" \in x.committed[i] => task[i] = "answered" /\ ~Outlives(i)

\* Each child outlives the turn, is settled, or will be by the commit of what
\* is left.
WillSettle(t, x, left) ==
  \A i \in children[t] :
    \/ Outlives(i) \/ x.status[i] \in Terminal
    \/ i \in left /\ deferred[i] # "none" /\ x.status[i] \in {"searching", "background"}

Speaking(t) ==
  pc[t] = "speaking" =>
    /\ todo[t] \subseteq Items(t) /\ todo[t] # {}
    /\ result[First(todo[t])] \in s.committed[First(todo[t])]
    /\ WillSettle(t, s, todo[t])

Over(t) ==
  pc[t] \in {"ended", "over"} =>
    /\ \A i \in children[t] : s.status[i] \in Terminal \/ Outlives(i)
    /\ \A i \in s.owned[t] : Outlives(i)

TurnInv(t) ==
  /\ Fresh(t) /\ Registered(t) /\ NothingHeld(t) /\ Belongs(t, s) /\ Progress(t)
  /\ CancelReaches(t) /\ Speaking(t) /\ Over(t)
  /\ \A i \in Items(t) : ItemOK(s, i)

TInv == TypeOK /\ CancelledIsSilent /\ \A t \in Turns : TurnInv(t)

------------------------------------------------------------------------------
(* The operators of the model. *)

\* The first of some items of a turn is the one with the least index.
LEMMA FirstItem ==
  ASSUME NEW t, NEW I, I \subseteq Items(t), I # {}
  PROVE  First(I) \in I /\ \A j \in I : First(I)[2] <= j[2]
<1> DEFINE B == {i[2] : i \in I}
<1>1. B \subseteq Nat /\ B # {}
  BY TurnAssumption DEF Items
<1>2. PICK m \in B : \A n \in B : ~(<<n, m>> \in OpToRel(<, Nat))
  BY Zenon, <1>1, NatLessThanWellFounded, WFMin
<1>3. PICK i \in I : i[2] = m
  BY Zenon, <1>2
<1>4. ASSUME NEW j \in I PROVE i[2] <= j[2]
  <2>1. m \in Nat /\ j[2] \in Nat /\ j[2] \in B
    BY Zenon, <1>1
  <2>2. ~(j[2] < m)
    BY Zenon, <1>2, <2>1 DEF OpToRel
  <2> QED
    BY <1>3, <2>1, <2>2
<1> HIDE DEF B
<1> QED
  BY Zenon, <1>4 DEF First

\* An item of a turn with the least index of some is the first of them.
LEMMA FirstIs ==
  ASSUME NEW t, NEW I, I \subseteq Items(t), NEW i \in I, \A j \in I : i[2] <= j[2]
  PROVE  First(I) = i
<1>1. First(I) \in I /\ \A j \in I : First(I)[2] <= j[2]
  BY Zenon, FirstItem
<1>2. First(I)[2] = i[2] /\ First(I)[1] = i[1]
  BY <1>1, TurnAssumption DEF Items
<1> QED
  BY <1>1, <1>2 DEF Items

\* What the transitions of a child's status allow.
LEMMA Transitions ==
  ASSUME NEW from \in Statuses, NEW to \in Statuses
  PROVE  /\ Legal(from, to) => from \notin Terminal /\ to # "none"
         /\ Legal(from, to) /\ from # "none" => to # "routing"
         /\ to \in Terminal /\ from \in {"searching", "background"} => Legal(from, to)
         /\ to \in {"failed", "cancelled"} /\ from # "none" /\ from \notin Terminal => Legal(from, to)
         /\ from = "none" /\ to \in {"routing", "searching", "failed"} => Legal(from, to)
         /\ from = "routing" /\ to = "searching" => Legal(from, to)
         /\ from = "searching" /\ to = "background" => Legal(from, to)
BY Zenon DEF Legal, Statuses, Terminal

\* EmitAll, field by field.
EmitsTo(x, I, to, y) ==
  /\ y \in Sessions
  /\ y.turnTasks = x.turnTasks /\ y.workTasks = x.workTasks /\ y.known = x.known
  /\ y.cancelled = x.cancelled /\ y.committed = x.committed /\ y.queue = x.queue
  /\ y.owned = x.owned
  /\ \A i \in Ids : y.status[i] = IF i \in I /\ Legal(x.status[i], to)
                                  THEN to ELSE x.status[i]

\* EmitAll changes the statuses that may move, and nothing else.
LEMMA EmitFacts ==
  ASSUME NEW x \in Sessions, NEW I, NEW to \in Statuses,
         NEW y, y = EmitAll(x, I, to)
  PROVE  EmitsTo(x, I, to, y)
BY Zenon DEF EmitsTo, EmitAll, Sessions

\* SettleAll, field by field.
SettlesTo(x, I, y) ==
  /\ y \in Sessions
  /\ y.turnTasks = x.turnTasks /\ y.workTasks = x.workTasks /\ y.known = x.known \ I
  /\ y.cancelled = x.cancelled \ I /\ y.queue = x.queue /\ y.owned = x.owned
  /\ \A i \in Ids :
       /\ y.committed[i] = IF i \in I \ x.cancelled THEN x.committed[i] \cup {result'[i]}
                           ELSE x.committed[i]
       /\ y.status[i] = IF i \in I /\ Legal(x.status[i], Settled(x, i))
                        THEN Settled(x, i) ELSE x.status[i]

\* SettleAll commits and settles the items it is given, and forgets them.
LEMMA SettleFacts ==
  ASSUME NEW x \in Sessions, NEW I, deferred' \in [Ids -> {"none"} \cup Terminal],
         result' \in [Ids -> Results],
         NEW y, y = SettleAll(x, I)
  PROVE  SettlesTo(x, I, y)
<1>1. \A i \in Ids : Settled(x, i) \in Statuses
  BY Zenon DEF Settled, Statuses, Terminal
<1> QED
  BY ZenonT(60), <1>1 DEF SettlesTo, SettleAll, Sessions

\* CommitState, field by field.
CommitsTo(x, i, what, y) ==
  /\ y \in Sessions
  /\ y.turnTasks = x.turnTasks /\ y.workTasks = x.workTasks /\ y.known = x.known \ {i}
  /\ y.cancelled = x.cancelled /\ y.status = x.status /\ y.owned = x.owned
  /\ y.queue = x.queue
  /\ \A j \in Ids : y.committed[j] = IF j = i THEN x.committed[j] \cup {what}
                                     ELSE x.committed[j]

\* CommitState adds to what is committed for one item, and forgets the item.
LEMMA CommitFacts ==
  ASSUME NEW x \in Sessions, NEW i \in Ids, NEW what \in Results,
         NEW y, y = CommitState(x, i, what)
  PROVE  CommitsTo(x, i, what, y)
BY Zenon DEF CommitsTo, CommitState, Sessions

\* CommitAndSpeak, field by field.
SpeaksTo(x, i, y) ==
  /\ y \in Sessions
  /\ y.turnTasks = x.turnTasks /\ y.workTasks = x.workTasks /\ y.known = x.known \ {i}
  /\ y.cancelled = x.cancelled /\ y.status = x.status /\ y.owned = x.owned
  /\ y.queue = x.queue \cup {<<i, result'[i]>>}
  /\ \A j \in Ids : y.committed[j] = IF j = i THEN x.committed[j] \cup {result'[i]}
                                     ELSE x.committed[j]

\* CommitAndSpeak commits the result of one item and queues it to be spoken.
LEMMA SpeakFacts ==
  ASSUME NEW x \in Sessions, NEW i \in Ids, result' \in [Ids -> Results],
         NEW y, y = CommitAndSpeak(x, i)
  PROVE  SpeaksTo(x, i, y)
<1>0. PICK z : z = CommitState(x, i, result'[i])
  BY Zenon
<1>1. /\ z \in Sessions
      /\ z.turnTasks = x.turnTasks /\ z.workTasks = x.workTasks /\ z.known = x.known \ {i}
      /\ z.cancelled = x.cancelled /\ z.status = x.status /\ z.owned = x.owned
      /\ z.queue = x.queue
      /\ \A j \in Ids : z.committed[j] = IF j = i THEN x.committed[j] \cup {result'[i]}
                                         ELSE x.committed[j]
  <2>1. result'[i] \in Results
    BY Zenon
  <2>2. CommitsTo(x, i, result'[i], z)
    BY Zenon, <1>0, <2>1, CommitFacts
  <2> QED
    BY Zenon, <2>2 DEF CommitsTo
<1>2. y = [z EXCEPT !.queue = @ \cup {<<i, result'[i]>>}]
  BY Zenon, <1>0 DEF CommitAndSpeak
<1>3. PICK q \in Ids \X Results : q = <<i, result'[i]>>
  BY Zenon
<1>4. /\ y \in Sessions /\ y.queue = z.queue \cup {q}
      /\ y.turnTasks = z.turnTasks /\ y.workTasks = z.workTasks /\ y.known = z.known
      /\ y.cancelled = z.cancelled /\ y.status = z.status /\ y.owned = z.owned
      /\ y.committed = z.committed
  BY <1>1, <1>2, <1>3 DEF Sessions
<1> QED
  BY Zenon, <1>1, <1>3, <1>4 DEF SpeaksTo

\* Release, field by field.
ReleasesTo(x, t, y) ==
  /\ y \in Sessions
  /\ y.turnTasks = x.turnTasks /\ y.workTasks = x.workTasks /\ y.known = x.known
  /\ y.cancelled = x.cancelled /\ y.status = x.status /\ y.committed = x.committed
  /\ y.queue = x.queue
  /\ \A u \in Turns : u # t => y.owned[u] = x.owned[u]
  /\ y.owned[t] = IF kind'[t] = "single" /\ open'[t] # {} THEN x.owned[t] ELSE {}

\* Release changes what the turn owns, and nothing else.
LEMMA ReleaseFacts ==
  ASSUME NEW x \in Sessions, NEW t \in Turns,
         NEW y, y = Release(x, t)
  PROVE  ReleasesTo(x, t, y)
BY Zenon DEF ReleasesTo, Release, Sessions

------------------------------------------------------------------------------
(* What the end of a turn and its commits do to the turn's items. *)

\* A session that differs from another in the items of one turn only, where no
\* more is cancelled.
Local(t, x, y) ==
  /\ y.turnTasks = x.turnTasks /\ y.workTasks = x.workTasks
  /\ y.cancelled \subseteq x.cancelled /\ y.known \subseteq x.known \cup Items(t)
  /\ \A u \in Turns \ {t} : y.owned[u] = x.owned[u]
  /\ \A i \in Ids \ Items(t) : y.status[i] = x.status[i] /\ y.committed[i] = x.committed[i]

\* Two changes to the items of one turn are one change to them.
LEMMA LocalTwice ==
  ASSUME NEW t, NEW x, NEW y, NEW z, Local(t, x, y), Local(t, y, z)
  PROVE  Local(t, x, z)
BY Zenon DEF Local

\* The types of what a commit reads.
Readable ==
  /\ deferred \in [Ids -> {"none"} \cup Terminal] /\ result \in [Ids -> Results]

\* The items of a turn are ids of that turn, its own id among them.
LEMMA ItemsAreIds ==
  ASSUME NEW t \in Turns
  PROVE  Items(t) \subseteq Ids /\ Own(t) \in Items(t) /\ \A i \in Items(t) : TurnOf(i) = t
BY TurnAssumption DEF Items, Ids, Own, TurnOf

\* The commits that do not speak keep what holds of a turn's items, and leave fewer
\* children to be settled.
LEMMA SettleKeeps ==
  ASSUME NEW x \in Sessions, NEW t \in Turns, NEW I, I \subseteq Items(t), Readable',
         \A i \in Items(t) : ItemOK(x, i)',
         NEW left, I \subseteq left, WillSettle(t, x, left)',
         children'[t] \subseteq Items(t),
         NEW y, y = SettleAll(x, I)
  PROVE  /\ \A i \in Items(t) : ItemOK(y, i)'
         /\ WillSettle(t, y, left \ I)'
         /\ Local(t, x, y)
<1>1. /\ y \in Sessions
      /\ y.turnTasks = x.turnTasks /\ y.workTasks = x.workTasks /\ y.known = x.known \ I
      /\ y.cancelled = x.cancelled \ I /\ y.queue = x.queue /\ y.owned = x.owned
      /\ \A i \in Ids :
           /\ y.committed[i] = IF i \in I \ x.cancelled THEN x.committed[i] \cup {result'[i]}
                               ELSE x.committed[i]
           /\ y.status[i] = IF i \in I /\ Legal(x.status[i], Settled(x, i))
                            THEN Settled(x, i) ELSE x.status[i]
  <2>1. deferred' \in [Ids -> {"none"} \cup Terminal] /\ result' \in [Ids -> Results]
    BY Zenon DEF Readable
  <2>2. SettlesTo(x, I, y)
    BY Zenon, <2>1, SettleFacts
  <2> QED
    BY Zenon, <2>2 DEF SettlesTo
<1>2. ASSUME NEW i \in Items(t)
      PROVE  /\ i \in Ids /\ TurnOf(i) = t
             /\ x.status[i] \in Statuses /\ Settled(x, i) \in Statuses
             /\ Settled(x, i) \in {"none"} \cup Terminal
             /\ deferred'[i] = "none" => Settled(x, i) = "none"
             /\ deferred'[i] # "none" => Settled(x, i) \in Terminal
             /\ Settled(x, i) = "result_ready" => i \notin x.cancelled /\ deferred'[i] = "result_ready"
  <2>1. i \in Ids /\ TurnOf(i) = t
    BY Zenon, ItemsAreIds
  <2>2. x.status[i] \in Statuses
    BY Zenon, <2>1 DEF Sessions
  <2> QED
    BY Zenon, <2>1, <2>2 DEF Settled, Readable, Statuses, Terminal
<1>3. ASSUME NEW i \in Items(t)
      PROVE  ItemOK(y, i)'
  <2>1. ItemOK(x, i)'
    BY Zenon
  <2>4. "answer" \in y.committed[i] => result'[i] = "answer" \/ "answer" \in x.committed[i]
    <3>1. y.committed[i] = x.committed[i] \cup {result'[i]} \/ y.committed[i] = x.committed[i]
      BY Zenon, <1>1, <1>2
    <3> QED
      BY Zenon, <3>1
  <2>2. CASE i \in I /\ Legal(x.status[i], Settled(x, i))
    <3>1. /\ x.status[i] \notin Terminal /\ Settled(x, i) # "none"
          /\ y.status[i] = Settled(x, i) /\ y.owned = x.owned
      BY Zenon, <1>1, <1>2, <2>2, Transitions
    <3>2. Settled(x, i) \in Terminal /\ deferred'[i] # "none"
      BY Zenon, <1>2, <3>1
    <3>3. y.status[i] = "result_ready" => "answer" \in y.committed[i]
      BY ZenonT(60), <1>1, <1>2, <2>1, <2>2, <3>1 DEF ItemOK
    <3> QED
      BY Zenon, <1>2, <2>1, <2>4, <3>1, <3>2, <3>3 DEF ItemOK, Outlives, Terminal
  <2>3. CASE ~(i \in I /\ Legal(x.status[i], Settled(x, i)))
    <3>1. y.status[i] = x.status[i] /\ x.committed[i] \subseteq y.committed[i] /\ y.owned = x.owned
      BY Zenon, <1>1, <1>2, <2>3
    <3> QED
      BY Zenon, <2>1, <2>4, <3>1 DEF ItemOK, Outlives
  <2> QED
    BY Zenon, <2>2, <2>3
<1>4. WillSettle(t, y, left \ I)'
  <2> SUFFICES ASSUME NEW i \in children'[t]
               PROVE  \/ Outlives(i)' \/ y.status[i] \in Terminal
                      \/ i \in left \ I /\ deferred'[i] # "none" /\ y.status[i] \in {"searching", "background"}
    BY Zenon DEF WillSettle
  <2>1. \/ Outlives(i)' \/ x.status[i] \in Terminal
        \/ i \in left /\ deferred'[i] # "none" /\ x.status[i] \in {"searching", "background"}
    BY Zenon DEF WillSettle
  <2>2. i \in Items(t)
    BY Zenon
  <2>3. CASE x.status[i] \in Terminal
    BY Zenon, <1>1, <1>2, <2>2, <2>3, Transitions
  <2>4. CASE i \in I /\ deferred'[i] # "none" /\ x.status[i] \in {"searching", "background"}
    <3>1. Settled(x, i) \in Terminal /\ Settled(x, i) \in Statuses /\ x.status[i] \in Statuses
      BY Zenon, <1>2, <2>2, <2>4
    <3>2. Legal(x.status[i], Settled(x, i))
      BY Zenon, <2>4, <3>1, Transitions
    <3> QED
      BY Zenon, <1>1, <1>2, <2>2, <2>4, <3>1, <3>2
  <2>5. CASE i \in left \ I /\ deferred'[i] # "none" /\ x.status[i] \in {"searching", "background"}
    BY Zenon, <1>1, <1>2, <2>2, <2>5
  <2> QED
    BY Zenon, <2>1, <2>3, <2>4, <2>5
<1>5. Local(t, x, y)
  BY Zenon, <1>1 DEF Local
<1> QED
  BY Zenon, <1>3, <1>4, <1>5

\* Where a turn's handler returns, raises or is cancelled: its children are
\* settled or outlive it.
Rests(t, x) ==
  /\ s' \in Sessions /\ Local(t, x, s')
  /\ (\A i \in Items(t) : ItemOK(s, i))' /\ Belongs(t, s)' /\ Over(t)'
  /\ pc' = [pc EXCEPT ![t] = "ended"] /\ todo' = [todo EXCEPT ![t] = {}]

\* The end of a turn keeps what holds of its items: a turn that raised or was
\* cancelled sweeps its children, and one that returned has none left to settle.
LEMMA EndKeeps ==
  ASSUME NEW x \in Sessions, NEW t \in Turns, NEW how \in {"returned", "failed", "cancelled"},
         pc \in [Turns -> Places], End(t, x, how), children' = children,
         \A i \in Items(t) : ItemOK(x, i)', Belongs(t, x)',
         how = "returned" => WillSettle(t, x, {})'
  PROVE  Rests(t, x) /\ s'.queue = x.queue /\ s'.cancelled = x.cancelled
<1>1. PICK y : y = IF how = "returned" THEN x ELSE EmitAll(x, Swept(t), how)
  BY Zenon
<1>2. PICK I : I = IF how = "returned" THEN {} ELSE Swept(t)
  BY Zenon
<1>3. PICK to \in {"failed", "cancelled"} : how # "returned" => to = how
  BY Zenon
<1>4. EmitsTo(x, I, to, y)
  <2>1. CASE how = "returned"
    BY Zenon, <1>1, <1>2, <2>1 DEF EmitsTo, Sessions
  <2>2. CASE how # "returned"
    <3>1. to \in Statuses /\ y = EmitAll(x, I, to)
      BY Zenon, <1>1, <1>2, <1>3, <2>2 DEF Statuses, Terminal
    <3> QED
      BY Zenon, <3>1, EmitFacts
  <2> QED
    BY Zenon, <2>1, <2>2
<1>5. /\ y \in Sessions
      /\ y.turnTasks = x.turnTasks /\ y.workTasks = x.workTasks /\ y.known = x.known
      /\ y.cancelled = x.cancelled /\ y.committed = x.committed /\ y.queue = x.queue
      /\ y.owned = x.owned
      /\ \A i \in Ids : y.status[i] = IF i \in I /\ Legal(x.status[i], to)
                                      THEN to ELSE x.status[i]
  BY Zenon, <1>4 DEF EmitsTo
<1>6. ReleasesTo(y, t, s')
  <2>1. s' = Release(y, t)
    BY Zenon, <1>1 DEF End, EndState
  <2> QED
    BY Zenon, <1>5, <2>1, ReleaseFacts
<1>7. /\ s' \in Sessions
      /\ s'.turnTasks = x.turnTasks /\ s'.workTasks = x.workTasks /\ s'.known = x.known
      /\ s'.cancelled = x.cancelled /\ s'.status = y.status /\ s'.committed = x.committed
      /\ s'.queue = x.queue
      /\ \A u \in Turns : u # t => s'.owned[u] = x.owned[u]
      /\ s'.owned[t] = IF kind'[t] = "single" /\ open'[t] # {} THEN x.owned[t] ELSE {}
  BY Zenon, <1>5, <1>6 DEF ReleasesTo
<1>8. pc'[t] = "ended" /\ pc' = [pc EXCEPT ![t] = "ended"] /\ todo' = [todo EXCEPT ![t] = {}]
  BY Zenon DEF End
<1>9. ASSUME NEW i \in Items(t)
      PROVE  /\ i \in Ids /\ TurnOf(i) = t /\ ItemOK(x, i)'
             /\ x.status[i] \in Statuses /\ to \in Statuses /\ to \in Terminal
             /\ i \in I => i \in children'[t] \ open'[t]
             /\ how # "returned" /\ i \in children'[t] \ open'[t] => i \in I
             /\ s'.owned[t] \subseteq x.owned[t]
             /\ s'.status[i] = IF i \in I /\ Legal(x.status[i], to) THEN to ELSE x.status[i]
  <2>1. i \in Ids /\ TurnOf(i) = t
    BY Zenon, ItemsAreIds
  <2>2. x.status[i] \in Statuses
    BY Zenon, <2>1 DEF Sessions
  <2> QED
    BY Zenon, <1>2, <1>3, <1>5, <1>7, <2>1, <2>2 DEF Swept, Statuses, Terminal
<1>10. ASSUME NEW i \in Items(t)
       PROVE  ItemOK(s, i)'
  <2>1. CASE i \in I /\ Legal(x.status[i], to)
    <3>1. s'.status[i] = to /\ x.status[i] \notin Terminal /\ i \notin open'[t] /\ to # "result_ready"
      BY Zenon, <1>3, <1>9, <2>1, Transitions
    <3> QED
      BY Zenon, <1>3, <1>7, <1>9, <3>1 DEF ItemOK, Outlives
  <2>2. CASE ~(i \in I /\ Legal(x.status[i], to))
    <3>1. s'.status[i] = x.status[i]
      BY Zenon, <1>9, <2>2
    <3> QED
      BY ZenonT(60), <1>7, <1>9, <3>1 DEF ItemOK, Outlives
  <2> QED
    BY Zenon, <2>1, <2>2
<1>11. Belongs(t, s)'
  BY Zenon, <1>7 DEF Belongs
<1>12. ASSUME NEW i \in children'[t]
       PROVE  s'.status[i] \in Terminal \/ Outlives(i)'
  <2>1. i \in Items(t)
    BY Zenon DEF Belongs
  <2>2. CASE how = "returned"
    <3>1. Outlives(i)' \/ x.status[i] \in Terminal
      BY Zenon, <2>2 DEF WillSettle
    <3> QED
      BY Zenon, <1>2, <1>9, <2>1, <2>2, <3>1
  <2>3. CASE how # "returned" /\ i \in open'[t]
    <3>1. s'.status[i] = x.status[i]
      BY Zenon, <1>9, <2>1, <2>3
    <3> QED
      BY Zenon, <1>9, <2>1, <2>3, <3>1 DEF ItemOK
  <2>4. CASE how # "returned" /\ i \notin open'[t]
    <3>1. i \in I /\ x.status[i] # "none"
      BY Zenon, <1>9, <2>1, <2>4 DEF ItemOK
    <3> QED
      BY Zenon, <1>3, <1>9, <2>1, <3>1, Transitions
  <2> QED
    BY Zenon, <2>2, <2>3, <2>4
<1>13. ASSUME NEW i \in s'.owned[t]
       PROVE  Outlives(i)'
  <2>1. i \in x.owned[t] /\ kind'[t] = "single" /\ open'[t] # {}
    BY Zenon, <1>7
  <2>2. i = Own(t) /\ i \in open'[t]
    BY Zenon, <2>1 DEF Belongs
  <2>3. i \in Items(t)
    BY Zenon, <2>2, ItemsAreIds
  <2> QED
    BY Zenon, <1>9, <2>1, <2>2, <2>3 DEF ItemOK
<1>14. Local(t, x, s')
  <2>1. \A i \in Ids \ Items(t) : s'.status[i] = x.status[i]
    BY Zenon, <1>2, <1>5, <1>7 DEF Swept, Belongs
  <2> QED
    BY Zenon, <1>7, <2>1 DEF Local
<1>15. Over(t)'
  BY Zenon, <1>12, <1>13 DEF Over
<1> QED
  BY Zenon, <1>7, <1>8, <1>10, <1>11, <1>14, <1>15 DEF Rests

\* A turn in its commit loop: it waits for start_next or has ended.
Advances(t, x) ==
  /\ s' \in Sessions /\ Local(t, x, s')
  /\ (\A i \in Items(t) : ItemOK(s, i))' /\ Belongs(t, s)' /\ Over(t)' /\ Speaking(t)'
  /\ pc'[t] \in {"speaking", "ended"} /\ todo'[t] \subseteq Items(t)
  /\ pc' = [pc EXCEPT ![t] = pc'[t]] /\ todo' = [todo EXCEPT ![t] = todo'[t]]
  /\ (\A q \in x.queue : q[1] \notin x.cancelled) => CancelledIsSilent'

\* The commit loop keeps what holds of the turn's items, up to the result it waits
\* for or to the end of the turn, and speaks for nothing that is cancelled.
LEMMA AdvanceKeeps ==
  ASSUME NEW x \in Sessions, NEW t \in Turns, NEW how \in {"returned", "failed", "cancelled"},
         NEW left, left \subseteq Items(t),
         pc \in [Turns -> Places], todo \in [Turns -> SUBSET Ids],
         Advance(t, x, left, how), children' = children, Readable',
         \A i \in Items(t) : ItemOK(x, i)', Belongs(t, x)', WillSettle(t, x, left)'
  PROVE  Advances(t, x)
<1> DEFINE spoken == {i \in left : Speaks(x, i)}
<1>0. children'[t] \subseteq Items(t)
  BY Zenon DEF Belongs
<1>1. CASE spoken = {}
  <2>1. PICK y : y = SettleAll(x, left)
    BY Zenon
  <2>2. SettlesTo(x, left, y)
    BY Zenon, <2>1, SettleFacts DEF Readable
  <2>3. /\ y \in Sessions /\ y.owned = x.owned /\ y.queue = x.queue
        /\ y.cancelled \subseteq x.cancelled
    BY Zenon, <2>2 DEF SettlesTo
  <2>4. /\ \A i \in Items(t) : ItemOK(y, i)'
        /\ WillSettle(t, y, left \ left)'
        /\ Local(t, x, y)
    BY Zenon, <1>0, <2>1, SettleKeeps
  <2>5. WillSettle(t, y, {})'
    BY Zenon, <2>4 DEF WillSettle
  <2>6. Belongs(t, y)'
    BY Zenon, <2>3 DEF Belongs
  <2>7. End(t, y, how)
    BY Zenon, <1>1, <2>1 DEF Advance
  <2>8. Rests(t, y) /\ s'.queue = y.queue /\ s'.cancelled = y.cancelled
    BY Zenon, <2>3, <2>4, <2>5, <2>6, <2>7, EndKeeps
  <2>9. Local(t, x, s')
    BY Zenon, <2>4, <2>8, LocalTwice DEF Rests
  <2>10. pc'[t] = "ended" /\ todo'[t] = {}
    BY Zenon, <2>8 DEF Rests
  <2>11. Speaking(t)'
    BY Zenon, <2>10 DEF Speaking
  <2>12. (\A q \in x.queue : q[1] \notin x.cancelled) => CancelledIsSilent'
    BY Zenon, <2>3, <2>8 DEF CancelledIsSilent
  <2> QED
    BY Zenon, <2>8, <2>9, <2>10, <2>11, <2>12 DEF Rests, Advances
<1>2. CASE spoken # {}
  <2>1. PICK i : i = First(spoken)
    BY Zenon
  <2>2. i \in spoken /\ \A j \in spoken : i[2] <= j[2]
    BY Zenon, <1>2, <2>1, FirstItem
  <2>3. i \in left /\ i \in Items(t) /\ i \in Ids /\ i \notin x.cancelled
    BY Zenon, <2>2, ItemsAreIds DEF Speaks
  <2>4. PICK D : D = Before(left, i)
    BY Zenon
  <2>5. D \subseteq left /\ D \subseteq Items(t) /\ i \notin D /\ \A j \in left \ D : i[2] <= j[2]
    BY <2>3, <2>4, TurnAssumption DEF Before, Items
  <2>6. PICK y : y = SettleAll(x, D)
    BY Zenon
  <2>7. SettlesTo(x, D, y)
    BY Zenon, <2>6, SettleFacts DEF Readable
  <2>8. /\ y \in Sessions /\ y.owned = x.owned /\ y.queue = x.queue
        /\ y.cancelled \subseteq x.cancelled
    BY Zenon, <2>7 DEF SettlesTo
  <2>9. /\ \A j \in Items(t) : ItemOK(y, j)'
        /\ WillSettle(t, y, left \ D)'
        /\ Local(t, x, y)
    BY Zenon, <1>0, <2>5, <2>6, SettleKeeps
  <2>10. /\ s' = CommitAndSpeak(y, i)
         /\ pc' = [pc EXCEPT ![t] = "speaking"]
         /\ todo' = [todo EXCEPT ![t] = left \ D]
    BY Zenon, <1>2, <2>1, <2>4, <2>6 DEF Advance
  <2>11. SpeaksTo(y, i, s')
    BY Zenon, <2>3, <2>8, <2>10, SpeakFacts DEF Readable
  <2>12. /\ s' \in Sessions
         /\ s'.turnTasks = y.turnTasks /\ s'.workTasks = y.workTasks /\ s'.known \subseteq y.known
         /\ s'.cancelled = y.cancelled /\ s'.status = y.status /\ s'.owned = y.owned
         /\ s'.queue = y.queue \cup {<<i, result'[i]>>}
         /\ \A j \in Ids : y.committed[j] \subseteq s'.committed[j]
         /\ \A j \in Ids \ {i} : y.committed[j] = s'.committed[j]
         /\ result'[i] \in s'.committed[i]
    BY Zenon, <2>3, <2>11 DEF SpeaksTo
  <2>13. Local(t, x, s')
    <3>1. Local(t, y, s')
      BY Zenon, <2>3, <2>12 DEF Local
    <3> QED
      BY Zenon, <2>9, <3>1, LocalTwice
  <2>14. ASSUME NEW j \in Items(t) PROVE ItemOK(s, j)'
    <3>1. ItemOK(y, j)' /\ j \in Ids
      BY Zenon, <2>9, ItemsAreIds
    <3>2. "answer" \in s'.committed[j] => result'[j] = "answer" \/ "answer" \in y.committed[j]
      <4>1. CASE j = i
        <5>1. s'.committed[i] = y.committed[i] \cup {result'[i]}
          BY Zenon, <2>3, <2>11 DEF SpeaksTo
        <5> QED
          BY Zenon, <4>1, <5>1
      <4>2. CASE j # i
        BY Zenon, <2>12, <3>1, <4>2
      <4> QED
        BY Zenon, <4>1, <4>2
    <3>3. /\ s'.status[j] = y.status[j] /\ s'.owned = y.owned
          /\ y.committed[j] \subseteq s'.committed[j]
      BY Zenon, <2>12, <3>1
    <3> QED
      BY Zenon, <3>1, <3>2, <3>3 DEF ItemOK
  <2>15. pc'[t] = "speaking" /\ todo'[t] = left \ D
    BY Zenon, <2>10
  <2>16. Speaking(t)'
    <3>1. First(left \ D) = i
      BY Zenon, <2>3, <2>5, FirstIs
    <3>2. WillSettle(t, s, left \ D)'
      BY Zenon, <2>9, <2>12 DEF WillSettle
    <3> QED
      BY Zenon, <2>3, <2>5, <2>12, <2>15, <3>1, <3>2 DEF Speaking
  <2>17. Over(t)' /\ Belongs(t, s)'
    BY Zenon, <2>8, <2>12, <2>15 DEF Over, Belongs
  <2>18. (\A q \in x.queue : q[1] \notin x.cancelled) => CancelledIsSilent'
    BY <2>3, <2>8, <2>12 DEF CancelledIsSilent
  <2> QED
    BY Zenon, <2>10, <2>12, <2>13, <2>14, <2>15, <2>16, <2>17, <2>18 DEF Advances
<1> QED
  BY Zenon, <1>1, <1>2

------------------------------------------------------------------------------
(* The turns a step leaves alone. *)

\* A step that does to turn u no more than to cancel its items, and then reaches
\* them.
Apart(u) ==
  /\ pc'[u] = pc[u] /\ kind'[u] = kind[u] /\ index'[u] = index[u] /\ todo'[u] = todo[u]
  /\ children'[u] = children[u] /\ open'[u] = open[u] /\ s'.owned[u] = s.owned[u]
  /\ u \in asked => u \in asked'
  /\ u \in asked' => u \in asked \/ pc[u] \notin {"none", "over"}
  /\ stopping \subseteq stopping'
  /\ \A i \in Items(u) :
       /\ result'[i] = result[i] /\ deferred'[i] = deferred[i] /\ task'[i] = task[i]
       /\ s'.status[i] = s.status[i] /\ s'.committed[i] = s.committed[i]
       /\ (i \in late' <=> i \in late) /\ (i \in callback' <=> i \in callback)
       /\ (i \in s'.turnTasks <=> i \in s.turnTasks)
       /\ i \in s'.known => i \in s.known
       /\ i \in s'.cancelled =>
             \/ i \in s.cancelled
             \/ pc[u] # "none" /\ (u \in asked' \/ i \in stopping' \/ pc[u] \notin OnTheWay)

\* A step apart from a turn keeps the turn's invariant.
LEMMA ApartKept ==
  ASSUME NEW u \in Turns, TurnInv(u), Apart(u)
  PROVE  TurnInv(u)'
<1>1. Fresh(u)'
  BY Zenon DEF TurnInv, Apart, Fresh
<1>2. Registered(u)'
  BY Zenon DEF TurnInv, Apart, Registered
<1>3. NothingHeld(u)'
  BY Zenon DEF TurnInv, Apart, NothingHeld
<1>4. Belongs(u, s)'
  BY Zenon DEF TurnInv, Apart, Belongs
<1>5. Progress(u)'
  <2>1. children[u] \subseteq Items(u)
    BY Zenon DEF TurnInv, Belongs
  <2>2. \A n \in 1..MaxItems : <<u, n>> \in Items(u)
    BY TurnAssumption DEF Items
  <2> QED
    BY ZenonT(60), <2>1, <2>2 DEF TurnInv, Apart, Progress
<1>6. CancelReaches(u)'
  BY Zenon DEF TurnInv, Apart, CancelReaches
<1>7. ASSUME NEW i \in Items(u) PROVE ItemOK(s, i)'
  <2>1. ItemOK(s, i) /\ TurnOf(i) = u
    BY Zenon, ItemsAreIds DEF TurnInv
  <2> QED
    BY Zenon, <2>1 DEF ItemOK, Outlives, Apart
<1>8. \A i \in children[u] : i \in Items(u) /\ (Outlives(i) <=> Outlives(i)')
  BY Zenon DEF TurnInv, Belongs, Apart, Outlives
<1>9. Speaking(u)'
  <2> SUFFICES ASSUME pc[u] = "speaking"
               PROVE  /\ todo'[u] \subseteq Items(u) /\ todo'[u] # {}
                      /\ result'[First(todo'[u])] \in s'.committed[First(todo'[u])]
                      /\ WillSettle(u, s, todo[u])'
    BY Zenon DEF Speaking, Apart
  <2>1. /\ todo[u] \subseteq Items(u) /\ todo[u] # {}
        /\ result[First(todo[u])] \in s.committed[First(todo[u])]
        /\ WillSettle(u, s, todo[u])
    BY Zenon DEF TurnInv, Speaking
  <2>2. First(todo[u]) \in Items(u)
    BY Zenon, <2>1, FirstItem
  <2>3. WillSettle(u, s, todo[u])'
    BY Zenon, <1>8, <2>1 DEF WillSettle, Apart
  <2> QED
    BY Zenon, <2>1, <2>2, <2>3 DEF Apart
<1>10. Over(u)'
  <2>1. s.owned[u] \subseteq children[u]
    BY Zenon DEF TurnInv, Belongs
  <2> QED
    BY Zenon, <1>8, <2>1 DEF TurnInv, Over, Apart
<1> QED
  BY Zenon, <1>1, <1>2, <1>3, <1>4, <1>5, <1>6, <1>7, <1>9, <1>10 DEF TurnInv

\* Sessions, and steps, that agree on what is not turn t's.
Elsewhere(t, x, y) ==
  /\ \A u \in Turns \ {t} : y.owned[u] = x.owned[u]
  /\ \A i \in Ids \ Items(t) :
       /\ y.status[i] = x.status[i] /\ y.committed[i] = x.committed[i]
       /\ (i \in y.turnTasks <=> i \in x.turnTasks)
       /\ (i \in y.known => i \in x.known) /\ (i \in y.cancelled => i \in x.cancelled)

OnlyTurn(t) ==
  /\ \A u \in Turns \ {t} :
       /\ pc'[u] = pc[u] /\ kind'[u] = kind[u] /\ index'[u] = index[u] /\ todo'[u] = todo[u]
       /\ children'[u] = children[u] /\ open'[u] = open[u] /\ (u \in asked' <=> u \in asked)
  /\ stopping \subseteq stopping'
  /\ \A i \in Ids \ Items(t) :
       /\ result'[i] = result[i] /\ deferred'[i] = deferred[i] /\ task'[i] = task[i]
       /\ (i \in late' <=> i \in late) /\ (i \in callback' <=> i \in callback)

\* A change to the items of one turn leaves the other turns alone.
LEMMA LocalElsewhere ==
  ASSUME NEW t, NEW x, NEW y, Local(t, x, y)
  PROVE  Elsewhere(t, x, y)
BY Zenon DEF Local, Elsewhere

\* A step of one turn that keeps that turn's invariant keeps every turn's.
LEMMA OthersKept ==
  ASSUME NEW t \in Turns, OnlyTurn(t), Elsewhere(t, s, s'),
         \A u \in Turns : TurnInv(u), TurnInv(t)'
  PROVE  (\A u \in Turns : TurnInv(u))'
<1> SUFFICES ASSUME NEW u \in Turns, u # t PROVE TurnInv(u)'
  BY Zenon
<1>1. Items(u) \subseteq Ids \ Items(t)
  BY Zenon, ItemsAreIds DEF Items
<1>2. Apart(u)
  BY Zenon, <1>1 DEF Apart, OnlyTurn, Elsewhere
<1> QED
  BY Zenon, <1>2, ApartKept

------------------------------------------------------------------------------
(* The steps of a turn. *)

\* What the emission of a status for some items of a turn leaves.
Emitted(t, x, I, to, y) ==
  /\ y \in Sessions /\ Local(t, x, y)
  /\ y.owned = x.owned /\ y.queue = x.queue /\ y.cancelled = x.cancelled
  /\ \A i \in Items(t) : ItemOK(y, i)'
  /\ \A i \in Ids : y.status[i] = IF i \in I /\ Legal(x.status[i], to) THEN to ELSE x.status[i]

\* An emission keeps what holds of a turn's items, unless it would publish a result
\* that is not committed, or settle work that is still to be delivered.
LEMMA EmitKeeps ==
  ASSUME NEW x \in Sessions, NEW t \in Turns, NEW I, I \subseteq Items(t), NEW to \in Statuses,
         NEW y, y = EmitAll(x, I, to),
         \A i \in Items(t) : ItemOK(x, i)', children'[t] \subseteq Items(t),
         \A i \in I : to = "result_ready" => "answer" \in x.committed[i],
         \A i \in I : i \in late' /\ i \notin stopping' => to \notin Terminal
  PROVE  Emitted(t, x, I, to, y)
<1>1. EmitsTo(x, I, to, y)
  BY Zenon, EmitFacts
<1>2. /\ y \in Sessions
      /\ y.turnTasks = x.turnTasks /\ y.workTasks = x.workTasks /\ y.known = x.known
      /\ y.cancelled = x.cancelled /\ y.committed = x.committed /\ y.queue = x.queue
      /\ y.owned = x.owned
      /\ \A i \in Ids : y.status[i] = IF i \in I /\ Legal(x.status[i], to)
                                      THEN to ELSE x.status[i]
  BY Zenon, <1>1 DEF EmitsTo
<1>3. Local(t, x, y)
  BY Zenon, <1>2 DEF Local
<1>4. ASSUME NEW i \in Items(t) PROVE ItemOK(y, i)'
  <2>1. ItemOK(x, i)' /\ i \in Ids /\ TurnOf(i) = t
    BY Zenon, ItemsAreIds
  <2>2. x.status[i] \in Statuses
    BY Zenon, <2>1 DEF Sessions
  <2>3. CASE i \in I /\ Legal(x.status[i], to)
    <3>1. /\ y.status[i] = to /\ to # "none" /\ x.status[i] \notin Terminal
          /\ x.status[i] # "none" => to # "routing"
      BY Zenon, <1>2, <2>1, <2>2, <2>3, Transitions
    <3> QED
      BY Zenon, <1>2, <2>1, <2>3, <3>1 DEF ItemOK, Outlives
  <2>4. CASE ~(i \in I /\ Legal(x.status[i], to))
    <3>1. y.status[i] = x.status[i]
      BY Zenon, <1>2, <2>1, <2>4
    <3> QED
      BY Zenon, <1>2, <2>1, <3>1 DEF ItemOK, Outlives
  <2> QED
    BY Zenon, <2>3, <2>4
<1> QED
  BY Zenon, <1>2, <1>3, <1>4 DEF Emitted

\* A turn that has come to its commits.
LEMMA LaterTurn ==
  ASSUME NEW t \in Turns, TurnInv(t), pc[t] \notin {"none", "over"},
         pc'[t] \in {"speaking", "ended"}, s'.turnTasks = s.turnTasks,
         (\A i \in Items(t) : ItemOK(s, i))', Belongs(t, s)', Over(t)', Speaking(t)'
  PROVE  TurnInv(t)'
<1>1. Fresh(t)' /\ NothingHeld(t)' /\ Progress(t)' /\ CancelReaches(t)'
  BY Zenon DEF Fresh, NothingHeld, Progress, CancelReaches, Uncollected, OnTheWay
<1>2. Registered(t)'
  BY Zenon DEF TurnInv, Registered
<1> QED
  BY Zenon, <1>1, <1>2 DEF TurnInv

\* TypeOK, but for what the commit loop changes.
RestOK ==
  /\ kind \in [Turns -> {"none", "direct", "control", "single", "pending", "multi"}]
  /\ index \in [Turns -> 0..(MaxItems + 1)]
  /\ raised \subseteq Turns /\ asked \subseteq Turns
  /\ children \in [Turns -> SUBSET Ids]
  /\ open \in [Turns -> SUBSET Ids] /\ \A t \in Turns : open[t] \subseteq children[t]
  /\ result \in [Ids -> Results]
  /\ deferred \in [Ids -> {"none"} \cup Terminal]
  /\ task \in [Ids -> {"none", "running", "rejected", "answered", "failed", "cancelled"}]
  /\ stopping \subseteq Ids /\ callback \subseteq Ids
  /\ late \subseteq {i \in Ids : task[i] = "running"}
  /\ live \in BOOLEAN /\ capable \in BOOLEAN /\ raises \in 0..MaxRaises

\* TypeOK, in parts.
LEMMA TypeParts ==
  /\ TypeOK => RestOK
  /\ TypeOK => s \in Sessions /\ pc \in [Turns -> Places] /\ todo \in [Turns -> SUBSET Ids]
  /\ RestOK => Readable
<1>1. TypeOK => RestOK
  BY Zenon DEF TypeOK, RestOK
<1>2. TypeOK => s \in Sessions /\ pc \in [Turns -> Places] /\ todo \in [Turns -> SUBSET Ids]
  BY Zenon DEF TypeOK, Places
<1>3. RestOK => Readable
  BY Zenon DEF RestOK, Readable
<1> QED
  BY Zenon, <1>1, <1>2, <1>3

\* A step that takes a turn through its commit loop keeps the invariant.
LEMMA AdvancedTurn ==
  ASSUME TInv, NEW t \in Turns, pc[t] \notin {"none", "over"},
         NEW x \in Sessions, Local(t, s, x), x.queue = s.queue, x.cancelled = s.cancelled,
         Advances(t, x), OnlyTurn(t), RestOK', task' = task
  PROVE  TInv'
<1>1. Local(t, s, s')
  BY Zenon, LocalTwice DEF Advances
<1>2. s'.turnTasks = s.turnTasks /\ s'.workTasks = s.workTasks
  BY Zenon, <1>1 DEF Local
<1>3. TurnInv(t)'
  BY Zenon, <1>2, LaterTurn DEF TInv, Advances
<1>4. (\A u \in Turns : TurnInv(u))'
  BY Zenon, <1>1, <1>3, LocalElsewhere, OthersKept DEF TInv
<1>5. CancelledIsSilent'
  BY Zenon DEF TInv, CancelledIsSilent, Advances
<1>6. TypeOK'
  <2>1. pc' \in [Turns -> Places]
    BY Zenon, TypeParts DEF TInv, Places, Advances
  <2>2. todo' \in [Turns -> SUBSET Ids]
    BY Zenon, ItemsAreIds DEF TInv, TypeOK, Advances
  <2> QED
    BY Zenon, <1>2, <2>1, <2>2 DEF TInv, TypeOK, Places, Advances, RestOK
<1> QED
  BY Zenon, <1>4, <1>5, <1>6 DEF TInv

\* A step that ends a turn keeps the invariant.
LEMMA RestedTurn ==
  ASSUME TInv, NEW t \in Turns, pc[t] \notin {"none", "over"},
         NEW x \in Sessions, Local(t, s, x), x.queue = s.queue, x.cancelled = s.cancelled,
         Rests(t, x), s'.queue = x.queue, s'.cancelled = x.cancelled,
         OnlyTurn(t), RestOK', task' = task
  PROVE  TInv'
<1>1. pc'[t] = "ended" /\ todo'[t] = {}
  BY Zenon, TypeParts DEF Rests, TInv
<1>2. Speaking(t)'
  BY Zenon, <1>1 DEF Speaking
<1>3. (\A q \in x.queue : q[1] \notin x.cancelled) => CancelledIsSilent'
  BY Zenon DEF CancelledIsSilent
<1>4. Advances(t, x)
  BY Zenon, <1>1, <1>2, <1>3 DEF Rests, Advances
<1> QED
  BY Zenon, <1>4, AdvancedTurn

\* What the invariant says of one turn.
LEMMA TurnFacts ==
  ASSUME TInv, NEW t \in Turns
  PROVE  /\ s \in Sessions /\ TurnInv(t) /\ Own(t) \in Items(t) /\ Items(t) \subseteq Ids
         /\ \A i \in Items(t) : TurnOf(i) = t
         /\ pc \in [Turns -> Places] /\ todo \in [Turns -> SUBSET Ids] /\ RestOK
         /\ Local(t, s, s)
BY Zenon, ItemsAreIds, TypeParts DEF TInv, Local

\* _handle_transcript_impl registers the turn, and keeps the invariant.
LEMMA TranscriptKeeps ==
  ASSUME TInv, NEW t \in Turns, Transcript(t)
  PROVE  TInv'
<1>0. /\ s \in Sessions /\ TurnInv(t) /\ Own(t) \in Items(t) /\ Items(t) \subseteq Ids
      /\ pc[t] = "none" /\ pc' = [pc EXCEPT ![t] = "routing"] /\ pc'[t] = "routing"
  BY Zenon, ItemsAreIds, TypeParts DEF TInv, Transcript
<1>1. /\ s' \in Sessions
      /\ s'.turnTasks = s.turnTasks \cup {Own(t)} /\ s'.known = s.known \cup {Own(t)}
      /\ s'.workTasks = s.workTasks /\ s'.cancelled = s.cancelled /\ s'.status = s.status
      /\ s'.committed = s.committed /\ s'.queue = s.queue /\ s'.owned = s.owned
  BY ZenonT(60), <1>0 DEF Transcript, Sessions
<1>2. /\ UNCHANGED <<kind, index, todo, raised, asked, children, open, result, deferred>>
      /\ UNCHANGED <<task, stopping, late, callback>> /\ UNCHANGED <<live, capable, raises>>
  BY Zenon DEF Transcript, workVars, hostVars
<1>3. TypeOK'
  BY Zenon, <1>0, <1>1, <1>2 DEF TInv, TypeOK
<1>4. CancelledIsSilent'
  BY Zenon, <1>1 DEF TInv, CancelledIsSilent
<1>5. TurnInv(t)'
  <2>1. Fresh(t)' /\ NothingHeld(t)'
    BY ZenonT(30), <1>0, <1>1, <1>2 DEF TurnInv, Fresh, NothingHeld, Uncollected
  <2>2. Registered(t)'
    BY ZenonT(30), <1>0, <1>1, <1>2 DEF TurnInv, Registered
  <2>3. Belongs(t, s)' /\ Progress(t)' /\ Speaking(t)' /\ Over(t)'
    BY ZenonT(30), <1>0, <1>1, <1>2 DEF TurnInv, Belongs, Progress, Speaking, Over
  <2>4. CancelReaches(t)'
    BY ZenonT(30), <1>0, <1>1, <1>2 DEF TurnInv, CancelReaches, Fresh
  <2>5. (\A i \in Items(t) : ItemOK(s, i))'
    BY ZenonT(60), <1>0, <1>1, <1>2 DEF TurnInv, ItemOK, Outlives
  <2> QED
    BY Zenon, <2>1, <2>2, <2>3, <2>4, <2>5 DEF TurnInv
<1>6. OnlyTurn(t) /\ Elsewhere(t, s, s')
  BY <1>0, <1>1, <1>2 DEF OnlyTurn, Elsewhere
<1> QED
  BY Zenon, <1>3, <1>4, <1>5, <1>6, OthersKept DEF TInv

\* A turn answered by the main responder has no children to settle.
LEMMA RoutedDirectKeeps ==
  ASSUME TInv, NEW t \in Turns, RoutedDirect(t)
  PROVE  TInv'
<1>0. /\ s \in Sessions /\ TurnInv(t) /\ Own(t) \in Items(t) /\ Items(t) \subseteq Ids
      /\ \A i \in Items(t) : TurnOf(i) = t
      /\ pc \in [Turns -> Places] /\ todo \in [Turns -> SUBSET Ids] /\ RestOK
      /\ Local(t, s, s) /\ pc[t] = "routing"
  BY Zenon, TurnFacts DEF RoutedDirect
<1>1. /\ kind' = [kind EXCEPT ![t] = "direct"] /\ result' = [result EXCEPT ![Own(t)] = "text"]
      /\ UNCHANGED <<index, raised, asked, children, open, deferred>>
      /\ UNCHANGED <<task, stopping, late, callback>> /\ UNCHANGED <<live, capable, raises>>
      /\ Advance(t, s, {Own(t)}, "returned")
  BY Zenon DEF RoutedDirect, workVars, hostVars
<1>2. RestOK' /\ Readable'
  BY Zenon, <1>0, <1>1 DEF RestOK, Readable, Results
<1>4. ASSUME NEW x, x = s
      PROVE  (\A i \in Items(t) : ItemOK(x, i)') /\ Belongs(t, x)' /\ WillSettle(t, x, {Own(t)})'
  <2>1. children[t] = {} /\ \A i \in Items(t) : deferred[i] = "none" /\ ItemOK(s, i)
    BY Zenon, <1>0 DEF TurnInv, Fresh, NothingHeld, Uncollected
  <2>4. \A i \in Items(t) : result'[i] = "answer" => result[i] = "answer"
    BY Zenon, <1>0, <1>1 DEF RestOK
  <2>2. \A i \in Items(t) : ItemOK(x, i)'
    BY Zenon, <1>0, <1>1, <1>4, <2>1, <2>4 DEF ItemOK, Outlives
  <2>3. Belongs(t, x)' /\ WillSettle(t, x, {Own(t)})'
    BY Zenon, <1>0, <1>1, <1>2, <1>4, <2>1 DEF TurnInv, Belongs, WillSettle
  <2> QED
    BY Zenon, <2>2, <2>3
<1>5. Advances(t, s)
  <2>1. PICK x : x = s
    BY Zenon
  <2>2. Advances(t, x)
    BY ZenonT(60), <1>0, <1>1, <1>2, <1>4, <2>1, AdvanceKeeps
  <2> QED
    BY Zenon, <2>1, <2>2
<1>6. OnlyTurn(t)
  <2>1. \A u \in Turns \ {t} : pc'[u] = pc[u] /\ todo'[u] = todo[u]
    BY Zenon, <1>0, <1>5 DEF Advances
  <2> QED
    BY <1>0, <1>1, <1>2, <2>1 DEF OnlyTurn, RestOK
<1> QED
  BY Zenon, <1>0, <1>1, <1>2, <1>5, <1>6, AdvancedTurn

\* A control turn that tells what it cancelled has no children to settle.
LEMMA StopsReturnKeeps ==
  ASSUME TInv, NEW c \in Turns, StopsReturn(c)
  PROVE  TInv'
<1>0. /\ s \in Sessions /\ TurnInv(c) /\ Own(c) \in Items(c) /\ Items(c) \subseteq Ids
      /\ \A i \in Items(c) : TurnOf(i) = c
      /\ pc \in [Turns -> Places] /\ todo \in [Turns -> SUBSET Ids] /\ RestOK
      /\ Local(c, s, s) /\ pc[c] = "stopping"
  BY Zenon, TurnFacts DEF StopsReturn
<1>1. /\ result' = [result EXCEPT ![Own(c)] = "text"]
      /\ UNCHANGED <<kind, index, raised, asked, children, open, deferred>>
      /\ UNCHANGED <<task, stopping, late, callback>> /\ UNCHANGED <<live, capable, raises>>
      /\ Advance(c, s, {Own(c)}, "returned")
  BY Zenon DEF StopsReturn, workVars, hostVars
<1>2. RestOK' /\ Readable'
  BY Zenon, <1>0, <1>1 DEF RestOK, Readable, Results
<1>3. PICK x : x = s
  BY Zenon
<1>4. (\A i \in Items(c) : ItemOK(x, i)') /\ Belongs(c, x)' /\ WillSettle(c, x, {Own(c)})'
  <2>1. children[c] = {} /\ \A i \in Items(c) : deferred[i] = "none" /\ ItemOK(s, i)
    BY Zenon, <1>0 DEF TurnInv, Fresh, NothingHeld, Uncollected
  <2>4. \A i \in Items(c) : result'[i] = "answer" => result[i] = "answer"
    BY Zenon, <1>0, <1>1 DEF RestOK
  <2>2. \A i \in Items(c) : ItemOK(x, i)'
    BY Zenon, <1>0, <1>1, <1>3, <2>1, <2>4 DEF ItemOK, Outlives
  <2>3. Belongs(c, x)' /\ WillSettle(c, x, {Own(c)})'
    BY Zenon, <1>0, <1>1, <1>2, <1>3, <2>1 DEF TurnInv, Belongs, WillSettle
  <2> QED
    BY Zenon, <2>2, <2>3
<1>5. Advances(c, x)
  BY ZenonT(60), <1>0, <1>1, <1>2, <1>3, <1>4, AdvanceKeeps
<1>6. OnlyTurn(c)
  <2>1. \A u \in Turns \ {c} : pc'[u] = pc[u] /\ todo'[u] = todo[u]
    BY ZenonT(30), <1>0, <1>5 DEF Advances
  <2> QED
    BY <1>0, <1>1, <1>2, <2>1 DEF OnlyTurn, RestOK
<1> QED
  BY Zenon, <1>0, <1>1, <1>2, <1>3, <1>5, <1>6, AdvancedTurn

\* A session in which the commits of what is left can go on.
Prepared(t, y, left) ==
  /\ y \in Sessions /\ Local(t, s, y) /\ y.queue = s.queue /\ y.cancelled = s.cancelled
  /\ (\A j \in Items(t) : ItemOK(y, j)') /\ Belongs(t, y)'
  /\ WillSettle(t, y, left)' /\ left \subseteq Items(t)

\* The status held back for the result that start_next has taken, or failed.
LEMMA SpokenKeeps ==
  ASSUME TInv, NEW t \in Turns, pc[t] = "speaking", NEW i, i = First(todo[t]),
         NEW left, left = todo[t] \ {i},
         NEW to \in {"none"} \cup Terminal, to = "none" <=> deferred[i] = "none",
         to = "result_ready" => deferred[i] = "result_ready",
         NEW y, y = EmitAll(s, {i}, to) \/ (to = "none" /\ y = s),
         UNCHANGED <<kind, children, open, result, deferred>>,
         UNCHANGED <<task, stopping, late, callback>>
  PROVE  Prepared(t, y, left)
<1>0. /\ s \in Sessions /\ TurnInv(t) /\ Own(t) \in Items(t) /\ Items(t) \subseteq Ids
      /\ \A j \in Items(t) : TurnOf(j) = t
      /\ pc \in [Turns -> Places] /\ todo \in [Turns -> SUBSET Ids] /\ RestOK
      /\ Local(t, s, s)
  BY Zenon, TurnFacts
<1>1. /\ todo[t] \subseteq Items(t) /\ todo[t] # {}
      /\ result[First(todo[t])] \in s.committed[First(todo[t])]
      /\ WillSettle(t, s, todo[t])
  BY Zenon, <1>0 DEF TurnInv, Speaking
<1>2. i \in todo[t] /\ i \in Items(t) /\ ItemOK(s, i)
  BY Zenon, <1>0, <1>1, FirstItem DEF TurnInv
<1>3. PICK x : x = s
  BY Zenon
<1>4. /\ x \in Sessions /\ (\A j \in Items(t) : ItemOK(x, j)')
      /\ children'[t] \subseteq Items(t)
  <2>1. x \in Sessions /\ children'[t] \subseteq Items(t)
    BY Zenon, <1>0, <1>3 DEF TurnInv, Belongs
  <2>2. ASSUME NEW j \in Items(t) PROVE ItemOK(x, j)'
    <3>1. ItemOK(x, j)
      BY ZenonT(30), <1>0, <1>3 DEF TurnInv
    <3> QED
      BY Zenon, <3>1 DEF ItemOK, Outlives
  <2> QED
    BY Zenon, <2>1, <2>2
<1>5. PICK I : I = {i}
  BY Zenon
<1>6. to \in Statuses
  BY Zenon DEF Statuses
<1>7. /\ \A j \in I : to = "result_ready" => "answer" \in x.committed[j]
      /\ \A j \in I : j \in late' /\ j \notin stopping' => to \notin Terminal
  BY Zenon, <1>1, <1>2, <1>3, <1>5 DEF ItemOK, Terminal
<1>8. /\ y \in Sessions /\ Local(t, x, y)
      /\ y.owned = x.owned /\ y.queue = x.queue /\ y.cancelled = x.cancelled
      /\ \A j \in Items(t) : ItemOK(y, j)'
      /\ \A j \in Ids : y.status[j] = IF j \in I /\ Legal(x.status[j], to)
                                      THEN to ELSE x.status[j]
  <2>1. CASE y = EmitAll(x, I, to)
    <3>1. I \subseteq Items(t)
      BY Zenon, <1>2, <1>5
    <3>2. Emitted(t, x, I, to, y)
      BY Zenon, <1>4, <1>6, <1>7, <2>1, <3>1, EmitKeeps
    <3> QED
      BY Zenon, <3>2 DEF Emitted
  <2>2. CASE to = "none" /\ y = x
    <3>1. \A j \in Ids : ~ Legal(x.status[j], to)
      BY Zenon, <1>4, <1>6, <2>2, Transitions DEF Sessions
    <3> QED
      BY Zenon, <1>0, <1>3, <1>4, <2>2, <3>1
  <2> QED
    BY Zenon, <1>3, <1>5, <2>1, <2>2
<1>9. Belongs(t, y)'
  BY ZenonT(30), <1>0, <1>3, <1>8 DEF TurnInv, Belongs
<1>10. WillSettle(t, y, left)'
  <2> SUFFICES ASSUME NEW j \in children'[t]
               PROVE  \/ Outlives(j)' \/ y.status[j] \in Terminal
                      \/ j \in left /\ deferred'[j] # "none" /\ y.status[j] \in {"searching", "background"}
    BY Zenon DEF WillSettle
  <2>1. \/ Outlives(j)' \/ x.status[j] \in Terminal
        \/ j \in todo[t] /\ deferred'[j] # "none" /\ x.status[j] \in {"searching", "background"}
    BY Zenon, <1>1, <1>3 DEF WillSettle, Outlives
  <2>2. j \in Ids /\ x.status[j] \in Statuses
    BY Zenon, <1>0, <1>4 DEF Sessions
  <2>3. CASE x.status[j] \in Terminal
    BY Zenon, <1>6, <1>8, <2>2, <2>3, Transitions
  <2>4. CASE j = i /\ deferred'[j] # "none" /\ x.status[j] \in {"searching", "background"}
    <3>1. to \in Terminal /\ Legal(x.status[j], to)
      BY Zenon, <1>6, <2>2, <2>4, Transitions
    <3> QED
      BY ZenonT(30), <1>5, <1>8, <2>2, <2>4, <3>1
  <2>5. CASE j \in left /\ deferred'[j] # "none" /\ x.status[j] \in {"searching", "background"}
    BY Zenon, <1>5, <1>8, <2>2, <2>5
  <2> QED
    BY Zenon, <2>1, <2>3, <2>4, <2>5
<1> QED
  BY Zenon, <1>1, <1>3, <1>8, <1>9, <1>10 DEF Prepared

\* start_next returns: the status held back is published after its commit.
LEMMA SpeechReturnsKeeps ==
  ASSUME TInv, NEW t \in Turns, SpeechReturns(t)
  PROVE  TInv'
<1>0. /\ s \in Sessions /\ TurnInv(t) /\ Own(t) \in Items(t) /\ Items(t) \subseteq Ids
      /\ \A j \in Items(t) : TurnOf(j) = t
      /\ pc \in [Turns -> Places] /\ todo \in [Turns -> SUBSET Ids] /\ RestOK
      /\ Local(t, s, s) /\ pc[t] = "speaking"
  BY Zenon, TurnFacts DEF SpeechReturns
<1>1. PICK i : i = First(todo[t])
  BY Zenon
<1>2. PICK left : left = todo[t] \ {i}
  BY ZenonT(30)
<1>3. PICK to : to = deferred[i]
  BY Zenon
<1>4. PICK y : y = EmitAll(s, {i}, to)
  BY Zenon
<1>5. PICK how \in {"returned", "failed", "cancelled"} : how = IF t \in raised THEN "failed" ELSE "returned"
  BY Zenon
<1>6. /\ UNCHANGED <<kind, children, open, result, deferred>>
      /\ UNCHANGED <<index, raised, asked>>
      /\ UNCHANGED <<task, stopping, late, callback>> /\ UNCHANGED <<live, capable, raises>>
      /\ Advance(t, y, left, how)
  BY Zenon, <1>1, <1>2, <1>3, <1>4, <1>5 DEF SpeechReturns, Emit, workVars, hostVars
<1>7. RestOK' /\ Readable'
  BY Zenon, <1>0, <1>6 DEF RestOK, Readable
<1>8. to \in {"none"} \cup Terminal
  <2>1. todo[t] \subseteq Items(t) /\ todo[t] # {}
    BY Zenon, <1>0 DEF TurnInv, Speaking
  <2>2. i \in Ids
    BY Zenon, <1>0, <1>1, <2>1, FirstItem
  <2> QED
    BY Zenon, <1>0, <1>3, <2>2 DEF RestOK
<1>9. /\ y \in Sessions /\ Local(t, s, y) /\ y.queue = s.queue /\ y.cancelled = s.cancelled
      /\ (\A j \in Items(t) : ItemOK(y, j)') /\ Belongs(t, y)'
      /\ WillSettle(t, y, left)' /\ left \subseteq Items(t)
  <2>1. Prepared(t, y, left)
    BY ZenonT(60), <1>0, <1>1, <1>2, <1>3, <1>4, <1>6, <1>8, SpokenKeeps
  <2> QED
    BY Zenon, <2>1 DEF Prepared
<1>10. Advances(t, y)
  BY Zenon, <1>0, <1>6, <1>7, <1>9, AdvanceKeeps
<1>11. OnlyTurn(t)
  <2>1. \A u \in Turns \ {t} : pc'[u] = pc[u] /\ todo'[u] = todo[u]
    BY Zenon, <1>0, <1>10 DEF Advances
  <2> QED
    BY Zenon, <1>6, <2>1 DEF OnlyTurn
<1> QED
  BY ZenonT(60), <1>0, <1>6, <1>7, <1>9, <1>10, <1>11, AdvancedTurn

\* start_next raises: the item has failed, and its siblings are still committed.
LEMMA SpeechRaisesKeeps ==
  ASSUME TInv, NEW t \in Turns, SpeechRaises(t)
  PROVE  TInv'
<1>0. /\ s \in Sessions /\ TurnInv(t) /\ Own(t) \in Items(t) /\ Items(t) \subseteq Ids
      /\ \A j \in Items(t) : TurnOf(j) = t
      /\ pc \in [Turns -> Places] /\ todo \in [Turns -> SUBSET Ids] /\ RestOK
      /\ Local(t, s, s) /\ pc[t] = "speaking"
  BY Zenon, TurnFacts DEF SpeechRaises
<1>1. PICK i : i = First(todo[t])
  BY Zenon
<1>2. PICK left : left = todo[t] \ {i}
  BY Zenon
<1>3. PICK to \in {"none"} \cup Terminal : to = IF deferred[i] = "none" THEN "none" ELSE "failed"
  BY Zenon DEF Terminal
<1>4. PICK y : y = IF deferred[i] = "none" THEN s ELSE EmitAll(s, {i}, "failed")
  BY Zenon
<1>5. /\ UNCHANGED <<kind, children, open, result, deferred>>
      /\ UNCHANGED <<index, asked>> /\ raised' = raised \cup {t}
      /\ raises < MaxRaises /\ raises' = raises + 1
      /\ UNCHANGED <<task, stopping, late, callback>> /\ UNCHANGED <<live, capable>>
      /\ Advance(t, y, left, "failed")
  BY Zenon, <1>1, <1>2, <1>4 DEF SpeechRaises, Emit, workVars
<1>6. RestOK' /\ Readable'
  BY <1>0, <1>5, TurnAssumption DEF RestOK, Readable
<1>7. y = EmitAll(s, {i}, to) \/ (to = "none" /\ y = s)
  BY Zenon, <1>3, <1>4
<1>8. (to = "none" <=> deferred[i] = "none") /\ to # "result_ready"
  BY Zenon, <1>3
<1>9. /\ y \in Sessions /\ Local(t, s, y) /\ y.queue = s.queue /\ y.cancelled = s.cancelled
      /\ (\A j \in Items(t) : ItemOK(y, j)') /\ Belongs(t, y)'
      /\ WillSettle(t, y, left)' /\ left \subseteq Items(t)
  <2>1. Prepared(t, y, left)
    BY ZenonT(60), <1>0, <1>1, <1>2, <1>5, <1>7, <1>8, SpokenKeeps
  <2> QED
    BY Zenon, <2>1 DEF Prepared
<1>10. Advances(t, y)
  BY Zenon, <1>0, <1>5, <1>6, <1>9, AdvanceKeeps
<1>11. OnlyTurn(t)
  <2>1. \A u \in Turns \ {t} : pc'[u] = pc[u] /\ todo'[u] = todo[u]
    BY Zenon, <1>0, <1>10 DEF Advances
  <2> QED
    BY Zenon, <1>5, <2>1 DEF OnlyTurn
<1> QED
  BY ZenonT(60), <1>0, <1>5, <1>6, <1>9, <1>10, <1>11, AdvancedTurn

\* A turn whose only worker is missing ends without a child.
LEMMA RoutedMissingKeeps ==
  ASSUME TInv, NEW t \in Turns, NEW k \in {"single", "pending"}, RoutedMissing(t, k)
  PROVE  TInv'
<1>0. /\ s \in Sessions /\ TurnInv(t) /\ Own(t) \in Items(t) /\ Items(t) \subseteq Ids
      /\ \A i \in Items(t) : TurnOf(i) = t
      /\ pc \in [Turns -> Places] /\ todo \in [Turns -> SUBSET Ids] /\ RestOK
      /\ Local(t, s, s) /\ pc[t] = "routing"
  BY Zenon, TurnFacts DEF RoutedMissing
<1>1. PICK x : x = s
  BY Zenon
<1>2. PICK I : I = {Own(t)}
  BY ZenonT(30)
<1>3. PICK y : y = EmitAll(x, I, "failed")
  BY Zenon
<1>4. /\ kind' = [kind EXCEPT ![t] = k]
      /\ UNCHANGED <<index, raised, asked, children, open, result, deferred>>
      /\ UNCHANGED <<task, stopping, late, callback>> /\ UNCHANGED <<live, capable, raises>>
      /\ End(t, y, "returned")
  BY Zenon, <1>1, <1>2, <1>3 DEF RoutedMissing, Emit, workVars, hostVars
<1>5. RestOK'
  BY Zenon, <1>0, <1>4 DEF RestOK
<1>6. /\ children[t] = {} /\ \A i \in Items(t) : i \notin late /\ ItemOK(s, i)
  BY Zenon, <1>0 DEF TurnInv, Fresh, NothingHeld, Uncollected
<1>7. /\ x \in Sessions /\ \A i \in Items(t) : ItemOK(x, i)'
      /\ children'[t] \subseteq Items(t) /\ I \subseteq Items(t)
      /\ \A i \in I : "failed" = "result_ready" => "answer" \in x.committed[i]
      /\ \A i \in I : i \in late' /\ i \notin stopping' => "failed" \notin Terminal
  BY Zenon, <1>0, <1>1, <1>2, <1>4, <1>6 DEF ItemOK, Outlives
<1>8. "failed" \in Statuses
  BY Zenon DEF Statuses, Terminal
<1>9. Emitted(t, x, I, "failed", y)
  BY Zenon, <1>3, <1>7, <1>8, EmitKeeps
<1>10. y \in Sessions /\ Local(t, s, y) /\ y.queue = s.queue /\ y.cancelled = s.cancelled
       /\ \A i \in Items(t) : ItemOK(y, i)'
  BY Zenon, <1>1, <1>9 DEF Emitted
<1>11. Belongs(t, y)' /\ WillSettle(t, y, {})'
  BY ZenonT(60), <1>0, <1>1, <1>4, <1>5, <1>6, <1>9 DEF TurnInv, Belongs, WillSettle, Emitted
<1>12. Rests(t, y) /\ s'.queue = y.queue /\ s'.cancelled = y.cancelled
  BY ZenonT(30), <1>0, <1>4, <1>10, <1>11, EndKeeps
<1>13. OnlyTurn(t)
  <2>1. \A u \in Turns \ {t} : pc'[u] = pc[u] /\ todo'[u] = todo[u]
    BY Zenon, <1>0, <1>12 DEF Rests
  <2> QED
    BY Zenon, <1>0, <1>4, <2>1 DEF OnlyTurn, RestOK
<1> QED
  BY ZenonT(60), <1>0, <1>4, <1>5, <1>10, <1>12, <1>13, RestedTurn

\* A turn that is cancelled ends with its children swept.
LEMMA CancelledEnd ==
  ASSUME TInv, NEW t \in Turns, pc[t] \notin {"none", "over"}, End(t, s, "cancelled"),
         UNCHANGED <<kind, index, raised, children, open, result, deferred>>,
         UNCHANGED <<task, stopping, late, callback>>, UNCHANGED <<live, capable, raises>>,
         asked' = asked \/ asked' = asked \ {t}
  PROVE  TInv'
<1>0. /\ s \in Sessions /\ TurnInv(t) /\ Own(t) \in Items(t) /\ Items(t) \subseteq Ids
      /\ \A i \in Items(t) : TurnOf(i) = t
      /\ pc \in [Turns -> Places] /\ todo \in [Turns -> SUBSET Ids] /\ RestOK
      /\ Local(t, s, s)
  BY Zenon, TurnFacts
<1>1. PICK x : x = s
  BY Zenon
<1>2. RestOK'
  BY Zenon, <1>0 DEF RestOK
<1>3. ASSUME NEW i \in Items(t) PROVE ItemOK(x, i)'
  <2>1. ItemOK(s, i)
    BY Zenon, <1>0 DEF TurnInv
  <2> QED
    BY Zenon, <1>1, <2>1 DEF ItemOK, Outlives
<1>4. Belongs(t, x)'
  BY ZenonT(30), <1>0, <1>1 DEF TurnInv, Belongs
<1>5. Rests(t, x) /\ s'.queue = x.queue /\ s'.cancelled = x.cancelled
  BY Zenon, <1>0, <1>1, <1>3, <1>4, EndKeeps
<1>6. OnlyTurn(t)
  <2>1. \A u \in Turns \ {t} : pc'[u] = pc[u] /\ todo'[u] = todo[u]
    BY Zenon, <1>0, <1>5 DEF Rests
  <2> QED
    BY Zenon, <2>1 DEF OnlyTurn
<1> QED
  BY Zenon, <1>0, <1>1, <1>2, <1>5, <1>6, RestedTurn

\* A cancelled turn whose work has stopped ends with its children swept.
LEMMA TurnUnwoundKeeps ==
  ASSUME TInv, NEW t \in Turns, TurnUnwound(t)
  PROVE  TInv'
BY Zenon, CancelledEnd DEF TurnUnwound, workVars, hostVars

\* The cancellation of a turn ends it, or makes it cancel and await its work.
LEMMA TurnCancelledKeeps ==
  ASSUME TInv, NEW t \in Turns, TurnCancelled(t)
  PROVE  TInv'
<1>0. /\ s \in Sessions /\ TurnInv(t) /\ Own(t) \in Items(t) /\ Items(t) \subseteq Ids
      /\ \A i \in Items(t) : TurnOf(i) = t
      /\ pc \in [Turns -> Places] /\ todo \in [Turns -> SUBSET Ids] /\ RestOK
      /\ Local(t, s, s) /\ pc[t] \notin {"none", "over"}
  <2>1. pc[t] \notin {"none", "over"}
    BY Zenon, TurnFacts DEF TurnInv, Registered, TurnCancelled
  <2> QED
    BY Zenon, <2>1, TurnFacts
<1>1. CASE pc[t] # "waiting"
  BY ZenonT(60), <1>0, <1>1, CancelledEnd DEF TurnCancelled, hostVars
<1>2. CASE pc[t] = "waiting"
  <2>1. /\ pc' = [pc EXCEPT ![t] = "unwinding"] /\ pc'[t] = "unwinding"
        /\ stopping' = stopping \cup Running(t) /\ asked' = asked \ {t}
        /\ UNCHANGED <<kind, index, todo, raised, children, open, result, deferred>>
        /\ UNCHANGED <<task, late, callback>> /\ UNCHANGED <<live, capable, raises>> /\ s' = s
    BY Zenon, <1>0, <1>2 DEF TurnCancelled, hostVars
  <2>2. TypeOK'
    <3>1. pc' \in [Turns -> Places]
      BY Zenon, <1>0, <2>1 DEF Places
    <3>2. Running(t) \subseteq Ids
      BY Zenon, <1>0 DEF RestOK, Running
    <3> QED
      BY Zenon, <2>1, <3>1, <3>2 DEF TInv, TypeOK, Places
  <2>3. CancelledIsSilent'
    BY Zenon, <2>1 DEF TInv, CancelledIsSilent
  <2>4. TurnInv(t)'
    <3>1. Fresh(t)' /\ Registered(t)' /\ Progress(t)' /\ CancelReaches(t)' /\ Speaking(t)' /\ Over(t)'
      BY ZenonT(30), <1>0, <1>2, <2>1 DEF TurnInv, Fresh, Registered, Progress, CancelReaches, OnTheWay, Speaking, Over
    <3>2. NothingHeld(t)' /\ Belongs(t, s)'
      BY ZenonT(30), <1>0, <1>2, <2>1 DEF TurnInv, NothingHeld, Uncollected, Belongs
    <3>3. (\A i \in Items(t) : ItemOK(s, i))'
      BY ZenonT(30), <1>0, <2>1 DEF TurnInv, ItemOK, Outlives
    <3> QED
      BY Zenon, <3>1, <3>2, <3>3 DEF TurnInv
  <2>5. OnlyTurn(t) /\ Elsewhere(t, s, s')
    BY <2>1 DEF OnlyTurn, Elsewhere
  <2> QED
    BY Zenon, <2>2, <2>3, <2>4, <2>5, OthersKept DEF TInv
<1> QED
  BY Zenon, <1>1, <1>2

\* The done callback of the turn's task takes it out of the ledger.
LEMMA TurnCallbackKeeps ==
  ASSUME TInv, NEW t \in Turns, TurnCallback(t)
  PROVE  TInv'
<1>0. /\ s \in Sessions /\ TurnInv(t) /\ Own(t) \in Items(t) /\ Items(t) \subseteq Ids
      /\ \A i \in Items(t) : TurnOf(i) = t
      /\ pc \in [Turns -> Places] /\ todo \in [Turns -> SUBSET Ids] /\ RestOK
      /\ Local(t, s, s) /\ pc[t] = "ended"
  BY Zenon, TurnFacts DEF TurnCallback
<1>1. /\ pc' = [pc EXCEPT ![t] = "over"] /\ pc'[t] = "over" /\ asked' = asked \ {t}
      /\ UNCHANGED <<kind, index, todo, raised, children, open, result, deferred>>
      /\ UNCHANGED <<task, stopping, late, callback>> /\ UNCHANGED <<live, capable, raises>>
  BY Zenon, <1>0 DEF TurnCallback, workVars, hostVars
<1>2. /\ s' \in Sessions
      /\ s'.turnTasks = s.turnTasks \ {Own(t)} /\ s'.known \subseteq s.known
      /\ s'.cancelled \subseteq s.cancelled
      /\ s'.workTasks = s.workTasks /\ s'.status = s.status
      /\ s'.committed = s.committed /\ s'.queue = s.queue /\ s'.owned = s.owned
  BY Zenon, <1>0 DEF TurnCallback, Sessions
<1>3. TypeOK'
  <2>1. pc' \in [Turns -> Places]
    BY Zenon, <1>0, <1>1 DEF Places
  <2> QED
    BY Zenon, <1>1, <1>2, <2>1 DEF TInv, TypeOK, Places
<1>4. CancelledIsSilent'
  BY Zenon, <1>2 DEF TInv, CancelledIsSilent
<1>5. TurnInv(t)'
  <2>1. Fresh(t)' /\ NothingHeld(t)' /\ Progress(t)' /\ CancelReaches(t)' /\ Speaking(t)'
    BY Zenon, <1>1 DEF Fresh, NothingHeld, Uncollected, Progress, CancelReaches, OnTheWay, Speaking
  <2>2. Registered(t)'
    BY ZenonT(30), <1>0, <1>1, <1>2 DEF TurnInv, Registered
  <2>3. Belongs(t, s)' /\ Over(t)'
    BY ZenonT(30), <1>0, <1>1, <1>2 DEF TurnInv, Belongs, Over, Outlives
  <2>4. (\A i \in Items(t) : ItemOK(s, i))'
    BY ZenonT(60), <1>0, <1>1, <1>2 DEF TurnInv, ItemOK, Outlives
  <2> QED
    BY Zenon, <2>1, <2>2, <2>3, <2>4 DEF TurnInv
<1>6. OnlyTurn(t) /\ Elsewhere(t, s, s')
  BY Zenon, <1>0, <1>1, <1>2 DEF OnlyTurn, Elsewhere
<1> QED
  BY Zenon, <1>3, <1>4, <1>5, <1>6, OthersKept DEF TInv

\* A turn gets no new answer, and none of its tasks is forgotten to have one.
AnswersKept(t) ==
  \A i \in Items(t) : /\ result'[i] = "answer" => result[i] = "answer"
                      /\ task[i] = "answered" => task'[i] = "answered"

\* A step of a turn that is still on its way to its work.
LEMMA OnItsWay ==
  ASSUME TInv, NEW t \in Turns, pc[t] \in {"routing", "acking", "deciding"}, t \notin asked,
         NEW to \in {"acking", "deciding", "waiting"}, pc' = [pc EXCEPT ![t] = to],
         UNCHANGED <<todo, raised, asked, open, deferred>>, UNCHANGED <<stopping, late, callback>>,
         RestOK', s' \in Sessions, s'.workTasks \subseteq {i \in Ids : task'[i] = "running"},
         OnlyTurn(t), Elsewhere(t, s, s'),
         s'.turnTasks = s.turnTasks, s'.cancelled = s.cancelled, s'.queue = s.queue,
         s'.committed = s.committed,
         Belongs(t, s)', Progress(t)',
         \A i \in children'[t] : s'.status[i] # "none",
         \A i \in Items(t) : s'.status[i] = "result_ready" => s.status[i] = "result_ready",
         AnswersKept(t)
  PROVE  TInv'
<1>0. /\ s \in Sessions /\ TurnInv(t) /\ Own(t) \in Items(t) /\ Items(t) \subseteq Ids
      /\ \A i \in Items(t) : TurnOf(i) = t
      /\ pc \in [Turns -> Places] /\ todo \in [Turns -> SUBSET Ids] /\ RestOK
      /\ Local(t, s, s) /\ pc'[t] = to
  BY Zenon, TurnFacts
<1>1. TypeOK'
  <2>1. pc' \in [Turns -> Places]
    BY Zenon, <1>0 DEF Places
  <2> QED
    BY ZenonT(30), <1>0, <2>1 DEF TypeOK, RestOK, Places
<1>2. CancelledIsSilent'
  BY ZenonT(30) DEF TInv, CancelledIsSilent
<1>3. /\ open[t] = {}
      /\ \A i \in Items(t) : i \notin late \cup callback /\ deferred[i] = "none"
  BY ZenonT(30), <1>0 DEF TurnInv, NothingHeld, Uncollected
<1>4. TurnInv(t)'
  <2>1. Fresh(t)' /\ Speaking(t)' /\ Over(t)'
    BY ZenonT(30), <1>0 DEF Fresh, Speaking, Over
  <2>2. NothingHeld(t)'
    BY ZenonT(30), <1>3 DEF NothingHeld
  <2>3. Registered(t)' /\ CancelReaches(t)'
    BY ZenonT(30), <1>0 DEF TurnInv, Registered, CancelReaches, OnTheWay
  <2>4. (\A i \in Items(t) : ItemOK(s, i))'
    <3> SUFFICES ASSUME NEW i \in Items(t) PROVE ItemOK(s, i)'
      BY Zenon
    <3>1. ItemOK(s, i) /\ TurnOf(i) = t
      BY Zenon, <1>0 DEF TurnInv
    <3>2. ~Outlives(i)'
      BY Zenon, <1>3 DEF Outlives
    <3>3. result'[i] = "answer" \/ "answer" \in s'.committed[i] => task'[i] = "answered"
      BY Zenon, <3>1 DEF AnswersKept, ItemOK
    <3> QED
      BY ZenonT(60), <1>0, <1>3, <3>1, <3>2, <3>3 DEF ItemOK, Outlives
  <2> QED
    BY ZenonT(30), <2>1, <2>2, <2>3, <2>4 DEF TurnInv
<1> QED
  BY ZenonT(30), <1>1, <1>2, <1>4, OthersKept DEF TInv

\* The acknowledgement of a single delegation returns: its search goes on.
LEMMA AckReturnsKeeps ==
  ASSUME TInv, NEW t \in Turns, AckReturns(t)
  PROVE  TInv'
<1>0. /\ s \in Sessions /\ TurnInv(t) /\ Own(t) \in Items(t) /\ Items(t) \subseteq Ids
      /\ \A i \in Items(t) : TurnOf(i) = t
      /\ pc \in [Turns -> Places] /\ todo \in [Turns -> SUBSET Ids] /\ RestOK
      /\ Local(t, s, s) /\ pc[t] = "acking" /\ t \notin asked
  BY Zenon, TurnFacts DEF AckReturns
<1>1. /\ pc' = [pc EXCEPT ![t] = "waiting"] /\ pc'[t] = "waiting" /\ s' = s
      /\ UNCHANGED <<todo, raised, asked, open, deferred>> /\ UNCHANGED <<kind, index, children, result>>
      /\ UNCHANGED <<stopping, late, callback>> /\ task' = task /\ UNCHANGED <<live, capable, raises>>
  BY Zenon, <1>0 DEF AckReturns, workVars, hostVars
<1>2. RestOK' /\ s'.workTasks \subseteq {i \in Ids : task'[i] = "running"}
  BY ZenonT(30), <1>0, <1>1 DEF RestOK, TInv, TypeOK
<1>3. OnlyTurn(t) /\ Elsewhere(t, s, s')
  BY <1>1 DEF OnlyTurn, Elsewhere
<1>4. Belongs(t, s)'
  BY ZenonT(30), <1>0, <1>1 DEF TurnInv, Belongs
<1>5. \A i \in children[t] : s.status[i] = "searching"
  BY ZenonT(30), <1>0 DEF TurnInv, Progress, AckReturns
<1>6. Progress(t)'
  BY Zenon, <1>1, <1>5 DEF Progress
<1>7. \A i \in children'[t] : s'.status[i] # "none"
  BY Zenon, <1>1, <1>5
<1>20. AnswersKept(t)
  BY Zenon, <1>1 DEF AnswersKept
<1> QED
  BY Zenon, <1>0, <1>1, <1>2, <1>3, <1>4, <1>6, <1>7, <1>20, OnItsWay

\* A compound turn starts to decide its items, none of which is delegated yet.
LEMMA RoutedMultiKeeps ==
  ASSUME TInv, NEW t \in Turns, RoutedMulti(t)
  PROVE  TInv'
<1>0. /\ s \in Sessions /\ TurnInv(t) /\ Own(t) \in Items(t) /\ Items(t) \subseteq Ids
      /\ \A i \in Items(t) : TurnOf(i) = t
      /\ pc \in [Turns -> Places] /\ todo \in [Turns -> SUBSET Ids] /\ RestOK
      /\ Local(t, s, s) /\ pc[t] = "routing" /\ t \notin asked
  BY Zenon, TurnFacts DEF RoutedMulti
<1>1. /\ pc' = [pc EXCEPT ![t] = "deciding"] /\ pc'[t] = "deciding" /\ s' = s
      /\ UNCHANGED <<todo, raised, asked, open, deferred>> /\ UNCHANGED <<children, result>>
      /\ UNCHANGED <<stopping, late, callback>> /\ task' = task /\ UNCHANGED <<live, capable, raises>>
      /\ kind' = [kind EXCEPT ![t] = "multi"] /\ index' = [index EXCEPT ![t] = 1]
  BY Zenon, <1>0 DEF RoutedMulti, workVars, hostVars
<1>2. RestOK' /\ s'.workTasks \subseteq {i \in Ids : task'[i] = "running"}
  BY <1>0, <1>1, TurnAssumption DEF RestOK, TInv, TypeOK
<1>3. OnlyTurn(t) /\ Elsewhere(t, s, s')
  BY Zenon, <1>0, <1>1 DEF OnlyTurn, Elsewhere, RestOK
<1>4. children[t] = {} /\ \A i \in Items(t) : s.status[i] = "none" /\ task[i] = "none"
  BY ZenonT(30), <1>0 DEF TurnInv, Fresh
<1>5. Belongs(t, s)'
  BY ZenonT(60), <1>0, <1>1, <1>4 DEF TurnInv, Belongs
<1>6. Progress(t)'
  <2>1. \A n \in 1..MaxItems : <<t, n>> \in Items(t)
    BY TurnAssumption DEF Items
  <2>2. index'[t] = 1 /\ kind'[t] = "multi"
    BY Zenon, <1>0, <1>1 DEF RestOK
  <2> QED
    BY <1>1, <1>4, <2>1, <2>2 DEF Progress
<1>7. \A i \in children'[t] : s'.status[i] # "none"
  BY Zenon, <1>1, <1>4
<1>20. AnswersKept(t)
  BY Zenon, <1>1 DEF AnswersKept
<1> QED
  BY ZenonT(60), <1>0, <1>1, <1>2, <1>3, <1>5, <1>6, <1>7, <1>20, OnItsWay

\* _begin_delegation, field by field.
DelegatesTo(x, t, i, y) ==
  /\ y \in Sessions
  /\ y.turnTasks = x.turnTasks /\ y.workTasks = x.workTasks /\ y.known = x.known \cup {i}
  /\ y.cancelled = x.cancelled /\ y.committed = x.committed /\ y.queue = x.queue
  /\ \A u \in Turns : y.owned[u] = IF u = t THEN x.owned[u] \cup {i} ELSE x.owned[u]
  /\ \A j \in Ids : y.status[j] = IF j = i THEN "routing" ELSE x.status[j]

\* _begin_delegation registers one item of the turn, and starts its status.
LEMMA DelegationFacts ==
  ASSUME NEW x \in Sessions, NEW t \in Turns, NEW i \in Items(t), x.status[i] = "none",
         NEW y, y = BeginDelegation(x, i)
  PROVE  DelegatesTo(x, t, i, y)
<1>0. i \in Ids /\ TurnOf(i) = t
  BY Zenon, ItemsAreIds
<1>1. PICK z : z = [x EXCEPT !.known = @ \cup {i}, !.owned[t] = @ \cup {i}]
  BY Zenon
<1>2. /\ z \in Sessions
      /\ z.turnTasks = x.turnTasks /\ z.workTasks = x.workTasks /\ z.known = x.known \cup {i}
      /\ z.cancelled = x.cancelled /\ z.committed = x.committed /\ z.queue = x.queue
      /\ z.status = x.status
      /\ \A u \in Turns : z.owned[u] = IF u = t THEN x.owned[u] \cup {i} ELSE x.owned[u]
  BY Zenon, <1>0, <1>1 DEF Sessions
<1>3. PICK I : I = {i}
  BY Zenon
<1>4. "routing" \in Statuses /\ y = EmitAll(z, I, "routing")
  BY Zenon, <1>0, <1>1, <1>3 DEF BeginDelegation, Emit, Statuses
<1>5. EmitsTo(z, I, "routing", y)
  BY Zenon, <1>2, <1>4, EmitFacts
<1>6. Legal("none", "routing")
  BY Zenon DEF Legal
<1> QED
  BY ZenonT(60), <1>0, <1>2, <1>3, <1>5, <1>6 DEF EmitsTo, DelegatesTo

\* _handle_pending delegates the turn's own id, which is not searching yet.
LEMMA RoutedPendingKeeps ==
  ASSUME TInv, NEW t \in Turns, RoutedPending(t)
  PROVE  TInv'
<1>0. /\ s \in Sessions /\ TurnInv(t) /\ Own(t) \in Items(t) /\ Items(t) \subseteq Ids
      /\ \A i \in Items(t) : TurnOf(i) = t
      /\ pc \in [Turns -> Places] /\ todo \in [Turns -> SUBSET Ids] /\ RestOK
      /\ Local(t, s, s) /\ pc[t] = "routing" /\ t \notin asked
  BY Zenon, TurnFacts DEF RoutedPending
<1>1. /\ pc' = [pc EXCEPT ![t] = "acking"] /\ pc'[t] = "acking" /\ s' = BeginDelegation(s, Own(t))
      /\ UNCHANGED <<todo, raised, asked, open, deferred>> /\ UNCHANGED <<index, result>>
      /\ UNCHANGED <<stopping, late, callback>> /\ task' = task /\ UNCHANGED <<live, capable, raises>>
      /\ kind' = [kind EXCEPT ![t] = "pending"] /\ children' = [children EXCEPT ![t] = {Own(t)}]
  BY Zenon, <1>0 DEF RoutedPending, workVars, hostVars
<1>2. /\ children[t] = {} /\ open[t] = {} /\ s.owned[t] = {}
      /\ \A i \in Items(t) : s.status[i] = "none" /\ task[i] = "none"
  BY ZenonT(30), <1>0 DEF TurnInv, Fresh, NothingHeld, Uncollected, Belongs
<1>3. DelegatesTo(s, t, Own(t), s')
  BY Zenon, <1>0, <1>1, <1>2, DelegationFacts
<1>4. /\ s' \in Sessions /\ s'.turnTasks = s.turnTasks /\ s'.workTasks = s.workTasks
      /\ s'.cancelled = s.cancelled /\ s'.committed = s.committed /\ s'.queue = s.queue
      /\ s'.known = s.known \cup {Own(t)} /\ s'.owned[t] = {Own(t)}
      /\ \A u \in Turns \ {t} : s'.owned[u] = s.owned[u]
      /\ \A j \in Ids : s'.status[j] = IF j = Own(t) THEN "routing" ELSE s.status[j]
  BY Zenon, <1>2, <1>3 DEF DelegatesTo
<1>5. children'[t] = {Own(t)} /\ kind'[t] = "pending"
  BY ZenonT(60), <1>0, <1>1 DEF RestOK
<1>6. RestOK' /\ s'.workTasks \subseteq {i \in Ids : task'[i] = "running"}
  BY <1>0, <1>1, <1>2, <1>4 DEF RestOK, TInv, TypeOK
<1>7. OnlyTurn(t) /\ Elsewhere(t, s, s')
  BY ZenonT(60), <1>0, <1>1, <1>4 DEF OnlyTurn, Elsewhere, RestOK
<1>8. Belongs(t, s)' /\ Progress(t)'
  BY ZenonT(60), <1>0, <1>1, <1>2, <1>4, <1>5 DEF Belongs, Progress
<1>9. /\ \A i \in children'[t] : s'.status[i] # "none"
      /\ \A i \in Items(t) : s'.status[i] = "result_ready" => s.status[i] = "result_ready"
  BY Zenon, <1>0, <1>4, <1>5
<1>20. AnswersKept(t)
  BY Zenon, <1>1 DEF AnswersKept
<1> QED
  BY ZenonT(60), <1>0, <1>1, <1>4, <1>6, <1>7, <1>8, <1>9, <1>20, OnItsWay

\* A single delegation starts its search, or is refused it, before it acknowledges.
LEMMA RoutedSingleKeeps ==
  ASSUME TInv, NEW t \in Turns, NEW accepted \in BOOLEAN, RoutedSingle(t, accepted)
  PROVE  TInv'
<1>0. /\ s \in Sessions /\ TurnInv(t) /\ Own(t) \in Items(t) /\ Items(t) \subseteq Ids
      /\ \A i \in Items(t) : TurnOf(i) = t
      /\ pc \in [Turns -> Places] /\ todo \in [Turns -> SUBSET Ids] /\ RestOK
      /\ Local(t, s, s) /\ pc[t] = "routing" /\ t \notin asked
  BY Zenon, TurnFacts DEF RoutedSingle
<1>1. PICK y : y = BeginDelegation(s, Own(t))
  BY Zenon
<1>2. PICK I : I = {Own(t)}
  BY Zenon
<1>3. PICK z : z = EmitAll(y, I, "searching")
  BY Zenon
<1>4. /\ pc' = [pc EXCEPT ![t] = "acking"] /\ pc'[t] = "acking"
      /\ UNCHANGED <<todo, raised, asked, open, deferred>> /\ UNCHANGED <<index, result>>
      /\ UNCHANGED <<stopping, late, callback>> /\ UNCHANGED <<live, capable, raises>>
      /\ kind' = [kind EXCEPT ![t] = "single"] /\ children' = [children EXCEPT ![t] = {Own(t)}]
      /\ task' = [task EXCEPT ![Own(t)] = IF accepted THEN "running" ELSE "rejected"]
      /\ s' = IF accepted THEN [z EXCEPT !.workTasks = @ \cup {Own(t)}] ELSE z
  BY Zenon, <1>0, <1>1, <1>2, <1>3 DEF RoutedSingle, Emit, hostVars
<1>5. /\ children[t] = {} /\ open[t] = {} /\ s.owned[t] = {}
      /\ \A i \in Items(t) : s.status[i] = "none" /\ task[i] = "none"
      /\ \A i \in Items(t) : i \notin late
  BY ZenonT(30), <1>0 DEF TurnInv, Fresh, NothingHeld, Uncollected, Belongs
<1>6. DelegatesTo(s, t, Own(t), y)
  BY Zenon, <1>0, <1>1, <1>5, DelegationFacts
<1>7. EmitsTo(y, I, "searching", z)
  <2>1. y \in Sessions /\ "searching" \in Statuses
    BY Zenon, <1>6 DEF DelegatesTo, Statuses
  <2> QED
    BY Zenon, <1>3, <2>1, EmitFacts
<1>8. /\ z \in Sessions /\ z.turnTasks = s.turnTasks /\ z.workTasks = s.workTasks
      /\ z.cancelled = s.cancelled /\ z.committed = s.committed /\ z.queue = s.queue
      /\ z.known = s.known \cup {Own(t)} /\ z.owned[t] = {Own(t)}
      /\ \A u \in Turns \ {t} : z.owned[u] = s.owned[u]
      /\ \A j \in Ids : z.status[j] = IF j = Own(t) THEN "searching" ELSE s.status[j]
  <2>1. Legal("routing", "searching")
    BY Zenon DEF Legal
  <2> QED
    BY ZenonT(60), <1>0, <1>2, <1>5, <1>6, <1>7, <2>1 DEF DelegatesTo, EmitsTo
<1>9. /\ s' \in Sessions /\ s'.turnTasks = z.turnTasks
      /\ s'.cancelled = z.cancelled /\ s'.committed = z.committed /\ s'.queue = z.queue
      /\ s'.known = z.known /\ s'.owned = z.owned /\ s'.status = z.status
      /\ s'.workTasks = IF accepted THEN z.workTasks \cup {Own(t)} ELSE z.workTasks
  BY Zenon, <1>0, <1>4, <1>8 DEF Sessions
<1>10. children'[t] = {Own(t)} /\ kind'[t] = "single"
  BY Zenon, <1>0, <1>4 DEF RestOK
<1>11. RestOK'
  BY Zenon, <1>0, <1>4, <1>5 DEF RestOK
<1>12. s'.workTasks \subseteq {i \in Ids : task'[i] = "running"}
  <2>1. s.workTasks \subseteq {i \in Ids : task[i] = "running"}
    BY Zenon DEF TInv, TypeOK
  <2>2. Own(t) \notin s.workTasks
    BY Zenon, <1>0, <1>5, <2>1
  <2>3. \A i \in Ids : i # Own(t) => task'[i] = task[i]
    BY Zenon, <1>0, <1>4 DEF RestOK
  <2>4. accepted => task'[Own(t)] = "running"
    BY Zenon, <1>0, <1>4 DEF RestOK
  <2> QED
    BY ZenonT(60), <1>0, <1>8, <1>9, <2>1, <2>2, <2>3, <2>4
<1>13. OnlyTurn(t) /\ Elsewhere(t, s, s')
  BY <1>0, <1>4, <1>8, <1>9 DEF OnlyTurn, Elsewhere, RestOK
<1>14. Belongs(t, s)' /\ Progress(t)'
  BY <1>0, <1>4, <1>5, <1>8, <1>9, <1>10 DEF Belongs, Progress
<1>15. /\ \A i \in children'[t] : s'.status[i] # "none"
       /\ \A i \in Items(t) : s'.status[i] = "result_ready" => s.status[i] = "result_ready"
  BY Zenon, <1>0, <1>8, <1>9, <1>10
<1>20. AnswersKept(t)
  BY Zenon, <1>0, <1>4 DEF TurnInv, Fresh, AnswersKept
<1> QED
  BY ZenonT(60), <1>0, <1>4, <1>8, <1>9, <1>11, <1>12, <1>13, <1>14, <1>15, <1>20, OnItsWay

\* A compound turn decides its next item: the later ones are still untouched.
LEMMA DecideItemKeeps ==
  ASSUME TInv, NEW t \in Turns, NEW outcome \in {"delegate", "text", "missing"},
         DecideItem(t, outcome)
  PROVE  TInv'
<1>0. /\ s \in Sessions /\ TurnInv(t) /\ Own(t) \in Items(t) /\ Items(t) \subseteq Ids
      /\ \A j \in Items(t) : TurnOf(j) = t
      /\ pc \in [Turns -> Places] /\ todo \in [Turns -> SUBSET Ids] /\ RestOK
      /\ Local(t, s, s) /\ pc[t] = "deciding" /\ t \notin asked
  BY Zenon, TurnFacts DEF DecideItem
<1>1. PICK i : i = <<t, index[t]>>
  BY Zenon
<1>2. /\ pc' = [pc EXCEPT ![t] = "deciding"] /\ pc'[t] = "deciding" /\ pc' = pc
      /\ UNCHANGED <<todo, raised, asked, open, deferred>> /\ kind' = kind
      /\ UNCHANGED <<stopping, late, callback>> /\ task' = task /\ UNCHANGED <<live, capable, raises>>
      /\ index' = [index EXCEPT ![t] = @ + 1] /\ index[t] <= MaxItems
      /\ children' = [children EXCEPT ![t] = IF outcome = "delegate" THEN @ \cup {i} ELSE @]
      /\ result' = [result EXCEPT ![i] = IF outcome = "delegate" THEN @ ELSE "text"]
      /\ s' = CASE outcome = "delegate" -> BeginDelegation(s, i)
                [] outcome = "missing"  -> Emit(s, i, "failed")
                [] OTHER                -> s
  BY Zenon, <1>0, <1>1 DEF DecideItem, workVars, hostVars
<1>3. index[t] \in 1..MaxItems
  BY <1>0, <1>2, TurnAssumption DEF TurnInv, Progress, RestOK
<1>4. /\ i \in Items(t) /\ i \in Ids /\ i \notin children[t] /\ s.status[i] = "none"
  BY <1>0, <1>1, <1>3 DEF TurnInv, Progress, Items
<1>5. /\ s' \in Sessions /\ s'.turnTasks = s.turnTasks /\ s'.workTasks = s.workTasks
      /\ s'.cancelled = s.cancelled /\ s'.committed = s.committed /\ s'.queue = s.queue
      /\ s'.known \subseteq s.known \cup {i}
      /\ \A u \in Turns \ {t} : s'.owned[u] = s.owned[u]
      /\ s'.owned[t] = IF outcome = "delegate" THEN s.owned[t] \cup {i} ELSE s.owned[t]
      /\ \A j \in Ids : j # i => s'.status[j] = s.status[j]
      /\ s'.status[i] \in {"none", "routing", "failed"}
      /\ outcome = "delegate" => s'.status[i] = "routing"
  <2>1. CASE outcome = "delegate"
    <3>1. DelegatesTo(s, t, i, s')
      BY ZenonT(60), <1>0, <1>2, <1>4, <2>1, DelegationFacts
    <3> QED
      BY Zenon, <1>4, <2>1, <3>1 DEF DelegatesTo
  <2>2. CASE outcome = "missing"
    <3>1. PICK I : I = {i}
      BY Zenon
    <3>2. "failed" \in Statuses /\ s' = EmitAll(s, I, "failed")
      BY Zenon, <1>2, <2>2, <3>1 DEF Emit, Statuses, Terminal
    <3>3. EmitsTo(s, I, "failed", s')
      BY Zenon, <1>0, <3>2, EmitFacts
    <3>4. I \subseteq {i} /\ \A j \in I : j = i
      BY Zenon, <3>1
    <3> QED
      BY Zenon, <1>4, <2>2, <3>3, <3>4 DEF EmitsTo
  <2>3. CASE outcome = "text"
    BY Zenon, <1>0, <1>2, <1>4, <2>3
  <2> QED
    BY Zenon, <2>1, <2>2, <2>3
<1>6. /\ children'[t] = IF outcome = "delegate" THEN children[t] \cup {i} ELSE children[t]
      /\ \A u \in Turns \ {t} : children'[u] = children[u]
      /\ index'[t] = index[t] + 1 /\ \A u \in Turns \ {t} : index'[u] = index[u]
      /\ \A j \in Ids \ {i} : result'[j] = result[j]
  BY Zenon, <1>0, <1>2 DEF RestOK
<1>7. RestOK' /\ s'.workTasks \subseteq {j \in Ids : task'[j] = "running"}
  <2>1. index' \in [Turns -> 0..(MaxItems + 1)]
    <3>1. PICK n \in 0..(MaxItems + 1) : n = index[t] + 1
      BY <1>3, TurnAssumption
    <3>2. index' = [index EXCEPT ![t] = n]
      BY Zenon, <1>2, <3>1
    <3> QED
      BY Zenon, <1>0, <3>2 DEF RestOK
  <2>2. children' \in [Turns -> SUBSET Ids] /\ result' \in [Ids -> Results]
    BY <1>0, <1>2, <1>4 DEF RestOK, Results
  <2>3. \A u \in Turns : open'[u] \subseteq children'[u]
    BY <1>0, <1>2, <1>6 DEF RestOK
  <2> QED
    BY ZenonT(60), <1>0, <1>2, <1>5, <2>1, <2>2, <2>3 DEF RestOK, TInv, TypeOK
<1>8. OnlyTurn(t) /\ Elsewhere(t, s, s')
  BY ZenonT(60), <1>2, <1>4, <1>5, <1>6 DEF OnlyTurn, Elsewhere
<1>10. kind[t] = "multi"
  BY Zenon, <1>0 DEF TurnInv, Progress
<1>11. Belongs(t, s)'
  BY <1>0, <1>2, <1>4, <1>5, <1>6, <1>10 DEF TurnInv, Belongs
<1>12. Progress(t)'
  <2>1. \A j \in children[t] : s.status[j] \in {"routing", "searching"}
    BY ZenonT(60), <1>0 DEF TurnInv, Progress
  <2>2. \A j \in children'[t] : s'.status[j] \in {"routing", "searching"}
    BY <1>0, <1>4, <1>5, <1>6, <2>1 DEF TurnInv, Belongs
  <2>3. ASSUME NEW n \in 1..MaxItems, n >= index'[t]
        PROVE  <<t, n>> \notin children'[t] /\ s'.status[<<t, n>>] = "none"
    <3>1. n # index[t] /\ n >= index[t]
      BY <1>3, <1>6, <2>3
    <3>2. <<t, n>> # i /\ <<t, n>> \in Ids
      BY <1>1, <3>1, TurnAssumption DEF Ids
    <3>3. <<t, n>> \notin children[t] /\ s.status[<<t, n>>] = "none"
      BY Zenon, <1>0, <3>1 DEF TurnInv, Progress
    <3> QED
      BY ZenonT(60), <1>5, <1>6, <3>2, <3>3
  <2> QED
    BY <1>0, <1>2, <1>3, <1>6, <1>10, <2>2, <2>3 DEF TurnInv, Progress
<1>13. /\ \A j \in children'[t] : s'.status[j] # "none"
       /\ \A j \in Items(t) : s'.status[j] = "result_ready" => s.status[j] = "result_ready"
  BY ZenonT(60), <1>0, <1>2, <1>4, <1>5, <1>12 DEF Progress
<1>20. AnswersKept(t)
  BY Zenon, <1>0, <1>2 DEF AnswersKept, RestOK
<1> QED
  BY ZenonT(60), <1>0, <1>2, <1>5, <1>7, <1>8, <1>11, <1>12, <1>13, <1>20, OnItsWay

\* coordinator.submit takes every child of the turn to searching.
LEMMA SubmitKeeps ==
  ASSUME TInv, NEW t \in Turns, NEW accepted \in SUBSET children[t], Submit(t, accepted)
  PROVE  TInv'
<1>0. /\ s \in Sessions /\ TurnInv(t) /\ Own(t) \in Items(t) /\ Items(t) \subseteq Ids
      /\ \A j \in Items(t) : TurnOf(j) = t
      /\ pc \in [Turns -> Places] /\ todo \in [Turns -> SUBSET Ids] /\ RestOK
      /\ Local(t, s, s) /\ pc[t] \in {"acking", "deciding"} /\ t \notin asked
      /\ pc[t] = "acking" => kind[t] = "pending"
  BY ZenonT(30), TurnFacts DEF Submit
<1>1. /\ pc' = [pc EXCEPT ![t] = "waiting"] /\ pc'[t] = "waiting"
      /\ s' = EmitAll(s, children[t], "searching")
      /\ UNCHANGED <<todo, raised, asked, open, deferred>> /\ UNCHANGED <<kind, index, children, result>>
      /\ UNCHANGED <<stopping, late, callback>> /\ UNCHANGED <<live, capable, raises>>
      /\ task' = [i \in Ids |-> IF i \notin children[t] THEN task[i]
                                ELSE IF i \in accepted THEN "running" ELSE "rejected"]
  BY Zenon, <1>0 DEF Submit, hostVars
<1>2. PICK I : I = children[t]
  BY Zenon
<1>3. EmitsTo(s, I, "searching", s')
  <2>1. "searching" \in Statuses
    BY Zenon DEF Statuses
  <2> QED
    BY ZenonT(60), <1>0, <1>1, <1>2, <2>1, EmitFacts
<1>4. /\ s' \in Sessions
      /\ s'.turnTasks = s.turnTasks /\ s'.workTasks = s.workTasks /\ s'.known = s.known
      /\ s'.cancelled = s.cancelled /\ s'.committed = s.committed /\ s'.queue = s.queue
      /\ s'.owned = s.owned
      /\ \A i \in Ids : s'.status[i] = IF i \in I /\ Legal(s.status[i], "searching")
                                       THEN "searching" ELSE s.status[i]
  BY Zenon, <1>3 DEF EmitsTo
<1>5. I \subseteq Items(t) /\ \A i \in Items(t) : i \notin late \cup callback
  BY ZenonT(30), <1>0, <1>2 DEF TurnInv, Belongs, NothingHeld, Uncollected
<1>6. \A i \in I : task[i] = "none"
  BY ZenonT(30), <1>0, <1>2, <1>5 DEF TurnInv, Progress
<1>7. RestOK' /\ s'.workTasks \subseteq {i \in Ids : task'[i] = "running"}
  <2>1. task' \in [Ids -> {"none", "running", "rejected", "answered", "failed", "cancelled"}]
    BY Zenon, <1>0, <1>1 DEF RestOK
  <2>2. \A i \in Ids \ I : task'[i] = task[i]
    BY Zenon, <1>1, <1>2
  <2>3. late' \subseteq {i \in Ids : task'[i] = "running"}
    BY ZenonT(60), <1>0, <1>1, <1>5, <2>2 DEF RestOK
  <2>4. s.workTasks \subseteq {i \in Ids : task[i] = "running"}
    BY Zenon DEF TInv, TypeOK
  <2> QED
    BY ZenonT(60), <1>0, <1>1, <1>4, <1>6, <2>1, <2>2, <2>3, <2>4 DEF RestOK
<1>8. OnlyTurn(t) /\ Elsewhere(t, s, s')
  <2>1. \A i \in Ids \ Items(t) : task'[i] = task[i] /\ s'.status[i] = s.status[i]
    BY ZenonT(30), <1>1, <1>2, <1>4, <1>5
  <2> QED
    BY ZenonT(60), <1>0, <1>1, <1>4, <2>1 DEF OnlyTurn, Elsewhere
<1>9. Belongs(t, s)'
  BY Zenon, <1>0, <1>1, <1>4 DEF TurnInv, Belongs
<1>10. \A i \in I : s'.status[i] = "searching"
  <2>1. Legal("routing", "searching")
    BY Zenon DEF Legal
  <2>2. \A i \in I : s.status[i] \in {"routing", "searching"} /\ i \in Ids
    BY ZenonT(30), <1>0, <1>2, <1>5 DEF TurnInv, Progress
  <2> QED
    BY Zenon, <1>4, <2>1, <2>2
<1>11. Progress(t)'
  BY ZenonT(30), <1>1, <1>2, <1>10 DEF Progress
<1>12. /\ \A i \in children'[t] : s'.status[i] # "none"
       /\ \A i \in Items(t) : s'.status[i] = "result_ready" => s.status[i] = "result_ready"
  BY ZenonT(60), <1>0, <1>1, <1>2, <1>4, <1>10
<1>20. AnswersKept(t)
  BY Zenon, <1>0, <1>1 DEF TurnInv, Progress, AnswersKept
<1> QED
  BY Zenon, <1>0, <1>1, <1>4, <1>7, <1>8, <1>9, <1>11, <1>12, <1>20, OnItsWay

\* PublishRetained emits for what is retained only, and nothing final for what
\* was not cancelled.
LEMMA PublishKeeps ==
  ASSUME NEW x \in Sessions, NEW t \in Turns, NEW kept, kept \subseteq Items(t), x = s,
         \A i \in Items(t) : ItemOK(x, i)', children'[t] \subseteq Items(t),
         kept \cap s.cancelled \subseteq stopping',
         NEW y, y = PublishRetained(t, kept)
  PROVE  /\ y \in Sessions /\ Local(t, x, y)
         /\ y.owned = x.owned /\ y.queue = x.queue /\ y.cancelled = x.cancelled
         /\ \A i \in Items(t) : ItemOK(y, i)'
         /\ \A i \in Ids \ kept : y.status[i] = x.status[i]
<1>0. "background" \in Statuses /\ "background" \notin Terminal /\ "cancelled" \in Statuses
  BY Zenon DEF Statuses, Terminal
<1>1. CASE kind[t] # "multi"
  <2>1. y = EmitAll(x, kept, "background")
    BY Zenon, <1>1 DEF PublishRetained
  <2>2. Emitted(t, x, kept, "background", y)
    BY Zenon, <1>0, <2>1, EmitKeeps
  <2> QED
    BY Zenon, <2>2 DEF Emitted
<1>2. CASE kind[t] = "multi"
  <2>1. PICK I : I = kept \ s.cancelled
    BY Zenon
  <2>2. PICK J : J = kept \cap s.cancelled
    BY Zenon
  <2>3. PICK z : z = EmitAll(x, I, "background")
    BY Zenon
  <2>4. y = EmitAll(z, J, "cancelled")
    BY Zenon, <1>2, <2>1, <2>2, <2>3 DEF PublishRetained
  <2>5. I \subseteq Items(t) /\ J \subseteq Items(t) /\ J \subseteq stopping'
    BY Zenon, <2>1, <2>2
  <2>6. Emitted(t, x, I, "background", z)
    BY Zenon, <1>0, <2>3, <2>5, EmitKeeps
  <2>7. z \in Sessions /\ \A i \in Items(t) : ItemOK(z, i)'
    BY Zenon, <2>6 DEF Emitted
  <2>8. Emitted(t, z, J, "cancelled", y)
    <3>1. \A i \in J : i \in late' /\ i \notin stopping' => "cancelled" \notin Terminal
      BY Zenon, <2>5
    <3> QED
      BY ZenonT(60), <1>0, <2>4, <2>5, <2>7, <3>1, EmitKeeps
  <2>9. Local(t, x, y)
    BY ZenonT(30), <2>6, <2>8, LocalTwice DEF Emitted
  <2>10. \A i \in Ids \ kept : i \notin I /\ i \notin J
    BY Zenon, <2>1, <2>2
  <2> QED
    BY ZenonT(60), <2>6, <2>8, <2>9, <2>10 DEF Emitted
<1> QED
  BY Zenon, <1>1, <1>2

\* The wait is over: each child is retained, or its result is left to commit with
\* a status held back; a child that is retained though cancelled was asked to stop.
LEMMA CollectKeeps ==
  ASSUME TInv, NEW t \in Turns, NEW kept \in SUBSET Running(t), Collect(t, kept)
  PROVE  TInv'
<1>0. /\ s \in Sessions /\ TurnInv(t) /\ Own(t) \in Items(t) /\ Items(t) \subseteq Ids
      /\ \A i \in Items(t) : TurnOf(i) = t
      /\ pc \in [Turns -> Places] /\ todo \in [Turns -> SUBSET Ids] /\ RestOK
      /\ Local(t, s, s) /\ pc[t] = "waiting" /\ t \notin asked
  BY Zenon, TurnFacts DEF Collect
<1>1. PICK y : y = PublishRetained(t, kept)
  BY Zenon
<1>2. PICK left : left = {i \in {t} \X (0..MaxItems) : result'[i] # "none"}
  BY ZenonT(30)
<1>3. /\ open' = [open EXCEPT ![t] = StillOpen(t, kept)]
      /\ result' = [i \in Ids |-> IF i \in children[t] THEN ResultOf(i, kept) ELSE result[i]]
      /\ deferred' = [i \in Ids |-> IF i \in children[t] THEN Derived(t, i, kept) ELSE deferred[i]]
      /\ late' = late \cup kept /\ stopping' = stopping \cup (Running(t) \ kept)
      /\ UNCHANGED <<kind, index, raised, asked>> /\ UNCHANGED <<children, task, callback>>
      /\ UNCHANGED <<live, capable, raises>>
      /\ Advance(t, y, left, "returned")
  BY Zenon, <1>1, <1>2 DEF Collect, hostVars
<1>4. /\ children[t] \subseteq Items(t) /\ open[t] = {} /\ s.owned[t] \subseteq children[t]
      /\ \A i \in Items(t) : i \notin late \cup callback /\ deferred[i] = "none"
      /\ \A i \in children[t] : s.status[i] = "searching"
      /\ \A i \in Items(t) : i \in s.cancelled => i \in stopping
      /\ \A i \in Items(t) : ItemOK(s, i)
  BY ZenonT(30), <1>0 DEF TurnInv, Belongs, NothingHeld, Uncollected, Progress, CancelReaches, OnTheWay
<1>5. /\ kept \subseteq children[t] /\ Running(t) \subseteq children[t]
      /\ \A i \in kept : task[i] = "running" /\ i \in Ids
  BY ZenonT(30), <1>0, <1>4 DEF Running
<1>6. /\ open'[t] \subseteq kept /\ kept \ s.cancelled \subseteq open'[t]
      /\ \A u \in Turns \ {t} : open'[u] = open[u]
      /\ open' \in [Turns -> SUBSET Ids]
  <2>1. StillOpen(t, kept) \subseteq kept /\ kept \ s.cancelled \subseteq StillOpen(t, kept)
    BY Zenon DEF StillOpen
  <2>2. StillOpen(t, kept) \subseteq Ids
    BY Zenon, <1>5, <2>1
  <2> QED
    BY ZenonT(60), <1>0, <1>3, <2>1, <2>2 DEF RestOK
<1>7. ASSUME NEW i \in children[t]
      PROVE  /\ result'[i] \in Results /\ deferred'[i] \in {"none"} \cup Terminal
             /\ i \in kept /\ i \notin s.cancelled => deferred'[i] = "none"
             /\ i \notin kept => result'[i] # "none" /\ deferred'[i] # "none"
             /\ deferred'[i] = "result_ready" => result'[i] = "answer"
             /\ result'[i] = "answer" => i \notin kept /\ task[i] = "answered"
  <2>1. i \in Ids
    BY Zenon, <1>0, <1>4
  <2>2. result'[i] = ResultOf(i, kept) /\ deferred'[i] = Derived(t, i, kept)
    BY Zenon, <1>3, <2>1
  <2>3. /\ ResultOf(i, kept) \in Results
        /\ i \notin kept /\ task[i] = "answered" => ResultOf(i, kept) = "answer"
        /\ i \notin kept => ResultOf(i, kept) # "none"
        /\ ResultOf(i, kept) = "answer" => i \notin kept /\ task[i] = "answered"
    BY Zenon DEF ResultOf, Results
  <2>4. /\ Derived(t, i, kept) \in {"none"} \cup Terminal
        /\ i \in kept /\ i \notin s.cancelled => Derived(t, i, kept) = "none"
        /\ i \notin kept => Derived(t, i, kept) # "none"
        /\ Derived(t, i, kept) = "result_ready" => task[i] = "answered"
    BY Zenon DEF Derived, Terminal
  <2> QED
    BY ZenonT(60), <1>5, <2>2, <2>3, <2>4
<1>8. \A i \in Ids \ children[t] : result'[i] = result[i] /\ deferred'[i] = deferred[i]
  BY ZenonT(30), <1>3
<1>9. RestOK' /\ Readable'
  <2>1. result' \in [Ids -> Results] /\ deferred' \in [Ids -> {"none"} \cup Terminal]
    <3>1. \A i \in Ids : result'[i] \in Results /\ deferred'[i] \in {"none"} \cup Terminal
      BY Zenon, <1>0, <1>7, <1>8 DEF RestOK
    <3> QED
      BY ZenonT(30), <1>3, <3>1
  <2>2. late' \subseteq {i \in Ids : task'[i] = "running"}
    BY Zenon, <1>0, <1>3, <1>5 DEF RestOK
  <2>3. stopping' \subseteq Ids
    BY ZenonT(60), <1>0, <1>3, <1>4, <1>5 DEF RestOK
  <2>4. \A u \in Turns : open'[u] \subseteq children'[u]
    BY ZenonT(60), <1>0, <1>3, <1>5, <1>6 DEF RestOK
  <2> QED
    BY ZenonT(60), <1>0, <1>3, <1>6, <2>1, <2>2, <2>3, <2>4 DEF RestOK, Readable
<1>10. PICK x : x = s
  BY Zenon
<1>11. ASSUME NEW i \in Items(t) PROVE ItemOK(x, i)'
  <2>1. ItemOK(s, i) /\ i \in Ids /\ TurnOf(i) = t /\ i \notin late \cup callback /\ deferred[i] = "none"
    BY ZenonT(30), <1>0, <1>4
  <2>2. CASE i \in kept
    <3>1. /\ s.status[i] = "searching" /\ i \in late' /\ i \in children'[t]
          /\ i \notin callback'
          /\ i \in stopping' \/ (i \in open'[t] /\ deferred'[i] = "none")
          /\ deferred'[i] = "result_ready" => result'[i] = "answer"
      BY ZenonT(60), <1>3, <1>4, <1>5, <1>6, <1>7, <2>1, <2>2
    <3>2. result'[i] # "answer" /\ "answer" \notin s.committed[i]
      BY Zenon, <1>5, <1>7, <2>1, <2>2 DEF ItemOK
    <3> QED
      BY ZenonT(30), <1>10, <2>1, <3>1, <3>2 DEF ItemOK, Outlives, Terminal
  <2>3. CASE i \notin kept
    <3>1. /\ i \notin late' /\ i \notin callback' /\ i \notin open'[t]
          /\ deferred'[i] = "result_ready" => result'[i] = "answer"
          /\ i \in children'[t] => i \in children[t]
      BY ZenonT(60), <1>3, <1>6, <1>7, <1>8, <2>1, <2>3
    <3>2. task' = task /\ (result'[i] = "answer" \/ "answer" \in s.committed[i] => task[i] = "answered")
      BY Zenon, <1>3, <1>7, <1>8, <2>1 DEF ItemOK
    <3> QED
      BY Zenon, <1>10, <2>1, <3>1, <3>2 DEF ItemOK, Outlives
  <2> QED
    BY Zenon, <2>2, <2>3
<1>12. /\ x \in Sessions /\ kept \subseteq Items(t) /\ children'[t] \subseteq Items(t)
       /\ kept \cap s.cancelled \subseteq stopping'
  BY ZenonT(60), <1>0, <1>3, <1>4, <1>5, <1>10
<1>13. /\ y \in Sessions /\ Local(t, x, y)
       /\ y.owned = x.owned /\ y.queue = x.queue /\ y.cancelled = x.cancelled
       /\ \A i \in Items(t) : ItemOK(y, i)'
       /\ \A i \in Ids \ kept : y.status[i] = x.status[i]
  BY <1>1, <1>10, <1>11, <1>12, PublishKeeps
<1>14. Belongs(t, y)'
  BY ZenonT(60), <1>0, <1>3, <1>4, <1>5, <1>6, <1>10, <1>13 DEF TurnInv, Belongs
<1>15. left \subseteq Items(t)
  BY ZenonT(60), <1>2 DEF Items
<1>16. WillSettle(t, y, left)'
  <2> SUFFICES ASSUME NEW i \in children'[t], i \notin kept
               PROVE  i \in left /\ deferred'[i] # "none" /\ y.status[i] = "searching"
    BY Zenon, <1>3 DEF WillSettle, Outlives
  <2>1. i \in children[t] /\ i \in Items(t) /\ i \in Ids
    BY ZenonT(30), <1>0, <1>3, <1>4
  <2> QED
    BY <1>2, <1>4, <1>7, <1>10, <1>13, <2>1 DEF Items
<1>17. Advances(t, y)
  BY ZenonT(60), <1>0, <1>3, <1>9, <1>13, <1>14, <1>15, <1>16, AdvanceKeeps
<1>18. OnlyTurn(t)
  <2>1. \A u \in Turns \ {t} : pc'[u] = pc[u] /\ todo'[u] = todo[u]
    BY ZenonT(30), <1>0, <1>17 DEF Advances
  <2>2. \A i \in Ids \ Items(t) : i \notin children[t] /\ i \notin kept
    BY Zenon, <1>4, <1>5
  <2> QED
    BY ZenonT(60), <1>3, <1>6, <1>8, <2>1, <2>2 DEF OnlyTurn
<1> QED
  BY ZenonT(60), <1>0, <1>3, <1>9, <1>10, <1>13, <1>17, <1>18, AdvancedTurn

\* A control turn cancels: every item it marks belongs to a turn that has begun,
\* and if that turn is on its way its task, or the item's, has been asked to stop.
LEMMA RoutedCancelKeeps ==
  ASSUME TInv, NEW c \in Turns, NEW target \in {Ids} \cup {{i} : i \in Ids},
         RoutedCancel(c, target)
  PROVE  TInv'
<1>0. /\ s \in Sessions /\ TurnInv(c) /\ Own(c) \in Items(c) /\ Items(c) \subseteq Ids
      /\ \A i \in Items(c) : TurnOf(i) = c
      /\ pc \in [Turns -> Places] /\ todo \in [Turns -> SUBSET Ids] /\ RestOK
      /\ pc[c] = "routing" /\ c \notin asked
  BY Zenon, TurnFacts DEF RoutedCancel
<1>1. PICK selected : selected = Selected(c, target)
  BY Zenon
<1>2. PICK hit : hit = CoordinatorCancel(target)
  BY Zenon
<1>3. /\ pc' = [pc EXCEPT ![c] = "stopping"] /\ pc'[c] = "stopping"
      /\ kind' = [kind EXCEPT ![c] = "control"]
      /\ asked' = asked \cup {t \in Turns : Own(t) \in selected \cap s.turnTasks /\ pc[t] # "ended"}
      /\ stopping' = stopping \cup (selected \cap s.workTasks) \cup {i \in hit : i # Own(c)}
      /\ UNCHANGED <<index, todo, raised, children, open, result, deferred>>
      /\ UNCHANGED <<task, late, callback>> /\ UNCHANGED <<live, capable, raises>>
  BY Zenon, <1>0, <1>1, <1>2 DEF RoutedCancel, hostVars
<1>4. /\ selected \subseteq target /\ hit \subseteq target /\ target \subseteq Ids
      /\ Own(c) \notin selected
      /\ \A i \in hit : task[i] = "running"
      /\ \A i \in selected : i \in s.turnTasks \/ i \in s.workTasks \/ i \in hit
                             \/ (target = Ids /\ i \in s.known)
      /\ target = Ids => \A i \in s.turnTasks : i # Own(c) => i \in selected
  <2>1. hit \subseteq target /\ target \subseteq Ids /\ \A i \in hit : task[i] = "running"
    BY Zenon, <1>2 DEF CoordinatorCancel
  <2>2. s.known \subseteq Ids /\ s.turnTasks \subseteq Ids
    BY Zenon, <1>0 DEF Sessions
  <2> QED
    BY ZenonT(60), <1>1, <1>2, <2>1, <2>2 DEF Selected
<1>5. /\ s' \in Sessions
      /\ s'.turnTasks = s.turnTasks /\ s'.workTasks = s.workTasks /\ s'.known = s.known
      /\ s'.cancelled = s.cancelled \cup selected /\ s'.committed = s.committed
      /\ s'.queue = {q \in s.queue : q[1] \notin target}
      /\ s'.owned = s.owned /\ s'.status = s.status
  <2>1. s' = [s EXCEPT !.cancelled = @ \cup selected, !.queue = @ \ {q \in s.queue : q[1] \in target}]
    BY Zenon, <1>1 DEF RoutedCancel
  <2>2. selected \subseteq Ids
    BY Zenon, <1>4
  <2> QED
    BY ZenonT(60), <1>0, <2>1, <2>2 DEF Sessions
<1>6. CancelledIsSilent'
  BY Zenon, <1>4, <1>5 DEF TInv, CancelledIsSilent
<1>7. TypeOK'
  <2>1. pc' \in [Turns -> Places]
    BY Zenon, <1>0, <1>3 DEF Places
  <2>2. RestOK'
    BY Zenon, <1>0, <1>3, <1>4 DEF RestOK
  <2> QED
    BY ZenonT(60), <1>0, <1>3, <1>5, <2>1, <2>2 DEF TInv, TypeOK, Places, RestOK
<1>8. TurnInv(c)'
  <2>1. Fresh(c)'
    BY Zenon, <1>0, <1>3, <1>5 DEF TurnInv, Fresh
  <2>2. Registered(c)'
    BY ZenonT(60), <1>0, <1>3, <1>4, <1>5 DEF TurnInv, Registered
  <2>3. NothingHeld(c)'
    BY Zenon, <1>0, <1>3 DEF TurnInv, NothingHeld, Uncollected
  <2>4. Progress(c)' /\ CancelReaches(c)' /\ Speaking(c)' /\ Over(c)'
    BY Zenon, <1>3 DEF Progress, CancelReaches, OnTheWay, Speaking, Over
  <2>5. Belongs(c, s)'
    BY Zenon, <1>0, <1>3, <1>5 DEF TurnInv, Belongs, RestOK
  <2>6. (\A i \in Items(c) : ItemOK(s, i))'
    BY ZenonT(60), <1>0, <1>3, <1>5 DEF TurnInv, NothingHeld, Uncollected, ItemOK, Outlives
  <2> QED
    BY ZenonT(60), <2>1, <2>2, <2>3, <2>4, <2>5, <2>6 DEF TurnInv
<1>9. ASSUME NEW u \in Turns, u # c PROVE TurnInv(u)'
  <2>1. /\ TurnInv(u) /\ Own(u) \in Items(u) /\ Items(u) \subseteq Ids /\ Own(u) # Own(c)
        /\ s.workTasks \subseteq {i \in Ids : task[i] = "running"}
    BY Zenon, <1>9, ItemsAreIds DEF TInv, TypeOK, Own
  <2>2. u \in asked' => u \in asked \/ pc[u] \notin {"none", "over"}
    BY Zenon, <1>3, <2>1 DEF TurnInv, Registered
  <2>3. ASSUME NEW i \in Items(u), i \in selected
        PROVE  pc[u] # "none" /\ (u \in asked' \/ i \in stopping' \/ pc[u] \notin OnTheWay)
    <3>0. i # Own(c)
      BY Zenon, <1>4, <2>3
    <3>1. CASE i \in s.turnTasks
      <4>1. i = Own(u) /\ pc[u] \notin {"none", "over"}
        BY Zenon, <2>1, <3>1 DEF TurnInv, Registered
      <4> QED
        BY ZenonT(60), <1>3, <2>3, <3>1, <4>1 DEF OnTheWay
    <3>2. CASE i \in s.workTasks \/ i \in hit
      <4>1. task[i] = "running"
        BY Zenon, <1>4, <2>1, <3>2
      <4>2. pc[u] # "none"
        BY Zenon, <2>1, <4>1 DEF TurnInv, Fresh
      <4> QED
        BY ZenonT(60), <1>3, <2>3, <3>0, <3>2, <4>2
    <3>3. CASE target = Ids /\ i \in s.known
      <4>1. pc[u] # "none"
        BY Zenon, <2>1, <3>3 DEF TurnInv, Fresh
      <4>2. CASE pc[u] \in OnTheWay
        <5>1. Own(u) \in s.turnTasks /\ pc[u] # "ended"
          BY Zenon, <2>1, <4>2 DEF TurnInv, Registered, OnTheWay
        <5>2. Own(u) \in selected
          BY ZenonT(60), <1>4, <2>1, <3>3, <5>1
        <5> QED
          BY ZenonT(60), <1>3, <4>1, <5>1, <5>2
      <4> QED
        BY Zenon, <4>1, <4>2
    <3> QED
      BY ZenonT(60), <1>4, <2>3, <3>1, <3>2, <3>3
  <2>4. pc'[u] = pc[u] /\ kind'[u] = kind[u]
    BY Zenon, <1>0, <1>3, <1>9 DEF RestOK
  <2>5. Apart(u)
    BY ZenonT(60), <1>3, <1>5, <2>2, <2>3, <2>4 DEF Apart
  <2> QED
    BY Zenon, <2>1, <2>5, ApartKept
<1> QED
  BY ZenonT(60), <1>6, <1>7, <1>8, <1>9 DEF TInv

------------------------------------------------------------------------------
(* The work that outlives its turn, and the session's own steps. *)

\* A task ends: what was retained is now about to be committed.
LEMMA TaskEndsKeeps ==
  ASSUME TInv, NEW i \in Ids, NEW how \in {"answered", "failed", "cancelled"}, TaskEnds(i, how)
  PROVE  TInv'
<1>0. PICK t \in Turns : t = TurnOf(i) /\ i \in Items(t)
  BY Zenon DEF Ids, TurnOf, Items
<1>1. /\ s \in Sessions /\ TurnInv(t) /\ Items(t) \subseteq Ids /\ RestOK
      /\ \A j \in Items(t) : TurnOf(j) = t
      /\ s.workTasks \subseteq {j \in Ids : task[j] = "running"}
  BY Zenon, TurnFacts DEF TInv, TypeOK
<1>2. /\ task[i] = "running" /\ task' = [task EXCEPT ![i] = how]
      /\ late' = late \ {i}
      /\ callback' = IF i \in late THEN callback \cup {i} ELSE callback
      /\ UNCHANGED <<pc, kind, index, todo, raised, asked, children, open, result, deferred>>
      /\ stopping' = stopping /\ UNCHANGED <<live, capable, raises>>
  BY Zenon DEF TaskEnds, turnVars, hostVars
<1>3. /\ s' \in Sessions
      /\ s'.turnTasks = s.turnTasks /\ s'.workTasks = s.workTasks \ {i} /\ s'.known = s.known
      /\ s'.cancelled = s.cancelled /\ s'.committed = s.committed /\ s'.queue = s.queue
      /\ s'.owned = s.owned /\ s'.status = s.status
  BY Zenon, <1>1 DEF TaskEnds, Sessions
<1>4. /\ task'[i] = how /\ \A j \in Ids \ {i} : task'[j] = task[j]
      /\ task' \in [Ids -> {"none", "running", "rejected", "answered", "failed", "cancelled"}]
  BY Zenon, <1>1, <1>2 DEF RestOK
<1>5. TypeOK' /\ CancelledIsSilent'
  <2>1. late' \subseteq {j \in Ids : task'[j] = "running"} /\ callback' \subseteq Ids
    BY ZenonT(30), <1>1, <1>2, <1>4 DEF RestOK
  <2>2. s'.workTasks \subseteq {j \in Ids : task'[j] = "running"}
    BY Zenon, <1>1, <1>3, <1>4
  <2> QED
    BY ZenonT(60), <1>2, <1>3, <1>4, <2>1, <2>2 DEF TInv, TypeOK, CancelledIsSilent
<1>6. \A j \in Ids : Outlives(j)' <=> Outlives(j)
  BY Zenon, <1>2 DEF Outlives
<1>7. TurnInv(t)'
  <2>1. Fresh(t)' /\ Registered(t)' /\ CancelReaches(t)'
    BY ZenonT(60), <1>0, <1>1, <1>2, <1>3 DEF TurnInv, Fresh, Registered, CancelReaches
  <2>2. NothingHeld(t)' /\ Belongs(t, s)'
    BY ZenonT(60), <1>0, <1>1, <1>2, <1>3 DEF TurnInv, NothingHeld, Belongs
  <2>3. Progress(t)'
    BY ZenonT(60), <1>0, <1>1, <1>2, <1>3 DEF TurnInv, Progress
  <2>4. Speaking(t)' /\ Over(t)'
    BY ZenonT(60), <1>1, <1>2, <1>3, <1>6 DEF TurnInv, Belongs, Speaking, WillSettle, Over
  <2>5. ASSUME NEW j \in Items(t) PROVE ItemOK(s, j)'
    <3>1. ItemOK(s, j) /\ j \in Ids
      BY ZenonT(30), <1>1 DEF TurnInv
    <3> QED
      BY ZenonT(60), <1>2, <1>3, <1>4, <1>6, <3>1 DEF ItemOK
  <2> QED
    BY ZenonT(60), <2>1, <2>2, <2>3, <2>4, <2>5 DEF TurnInv
<1>8. OnlyTurn(t) /\ Elsewhere(t, s, s')
  BY ZenonT(60), <1>0, <1>2, <1>3, <1>4 DEF OnlyTurn, Elsewhere
<1> QED
  BY ZenonT(60), <1>5, <1>7, <1>8, OthersKept DEF TInv

\* The late commit, field by field.
LateCommitsTo(i, how, y) ==
  /\ y \in Sessions
  /\ y.turnTasks = s.turnTasks /\ y.workTasks = s.workTasks /\ y.known \subseteq s.known
  /\ y.cancelled \subseteq s.cancelled /\ y.queue \subseteq s.queue
  /\ y.owned = s.owned /\ y.status = s.status
  /\ \A j \in Ids \ {i} : y.committed[j] = s.committed[j]
  /\ s.committed[i] \subseteq y.committed[i]
  /\ task[i] # "answered" => y.committed[i] = s.committed[i]
  /\ task[i] = "answered" /\ how = "valid" => "answer" \in y.committed[i]

\* commit_late_result_once commits a valid answer, and drops the item's mark and
\* notice.
LEMMA LateFacts ==
  ASSUME s \in Sessions, NEW i \in Ids, NEW how, NEW y, y = LateCommitted(i, how)
  PROVE  LateCommitsTo(i, how, y)
<1>0. "answer" \in Results
  BY Zenon DEF Results
<1>1. CASE task[i] # "answered"
  <2>1. y = [s EXCEPT !.known = @ \ {i}]
    BY Zenon, <1>1 DEF LateCommitted
  <2> QED
    BY ZenonT(60), <1>1, <2>1 DEF LateCommitsTo, Sessions
<1>4. CASE task[i] = "answered" /\ (how # "valid" \/ Duplicate(i))
  <2>1. y = Suppress(s, i)
    BY Zenon, <1>4 DEF LateCommitted
  <2>2. /\ y \in Sessions
        /\ y.turnTasks = s.turnTasks /\ y.workTasks = s.workTasks /\ y.known \subseteq s.known
        /\ y.cancelled \subseteq s.cancelled /\ y.queue = s.queue
        /\ y.owned = s.owned /\ y.status = s.status /\ y.committed = s.committed
    BY Zenon, <2>1 DEF Suppress, Sessions
  <2> QED
    BY Zenon, <1>4, <2>2 DEF LateCommitsTo, Duplicate
<1>2. CASE task[i] = "answered" /\ how = "valid" /\ ~Duplicate(i) /\ i \in s.cancelled
  <2>1. PICK x : x = Suppress(s, i)
    BY Zenon
  <2>2. /\ x \in Sessions
        /\ x.turnTasks = s.turnTasks /\ x.workTasks = s.workTasks /\ x.known \subseteq s.known
        /\ x.cancelled \subseteq s.cancelled /\ x.queue = s.queue
        /\ x.owned = s.owned /\ x.status = s.status /\ x.committed = s.committed
    BY Zenon, <2>1 DEF Suppress, Sessions
  <2>3. CommitsTo(x, i, "answer", y)
    BY ZenonT(60), <1>0, <1>2, <2>1, <2>2, CommitFacts DEF LateCommitted
  <2> QED
    BY Zenon, <1>2, <2>2, <2>3 DEF CommitsTo, LateCommitsTo
<1>3. CASE task[i] = "answered" /\ how = "valid" /\ ~Duplicate(i) /\ i \notin s.cancelled
  <2>1. PICK x : x = CommitState(s, i, "answer")
    BY Zenon
  <2>2. CommitsTo(s, i, "answer", x)
    BY Zenon, <1>0, <2>1, CommitFacts
  <2>3. x \in Sessions
    BY Zenon, <2>2 DEF CommitsTo
  <2>4. /\ y \in Sessions
        /\ y.turnTasks = x.turnTasks /\ y.workTasks = x.workTasks /\ y.known = x.known
        /\ y.cancelled = x.cancelled /\ y.queue \subseteq x.queue
        /\ y.owned = x.owned /\ y.status = x.status /\ y.committed = x.committed
    <3>1. y = IF live THEN [x EXCEPT !.queue = @ \ {<<i, "notice">>}] ELSE x
      BY Zenon, <1>3, <2>1 DEF LateCommitted, WithoutNotice
    <3>2. CASE live
      BY <2>3, <3>1, <3>2 DEF Sessions
    <3>3. CASE ~live
      BY Zenon, <2>3, <3>1, <3>3
    <3> QED
      BY Zenon, <3>2, <3>3
  <2> QED
    BY Zenon, <1>3, <2>2, <2>4 DEF CommitsTo, LateCommitsTo
<1> QED
  BY Zenon, <1>1, <1>2, <1>3, <1>4

\* The late callback runs: the item is committed, released and settled.
LEMMA LateCommitKeeps ==
  ASSUME TInv, NEW i \in Ids, NEW how \in LateResults, LateCommit(i, how)
  PROVE  TInv'
<1>0. PICK t \in Turns : t = TurnOf(i) /\ i \in Items(t)
  BY Zenon DEF Ids, TurnOf, Items
<1>1. /\ s \in Sessions /\ TurnInv(t) /\ Items(t) \subseteq Ids /\ RestOK
      /\ \A j \in Items(t) : TurnOf(j) = t
  BY Zenon, TurnFacts
<1>2. /\ i \in callback /\ callback' = callback \ {i}
      /\ UNCHANGED <<pc, kind, index, todo, raised, asked, children, open, result, deferred>>
      /\ UNCHANGED <<task, stopping, late>> /\ UNCHANGED <<live, capable, raises>>
  BY Zenon DEF LateCommit, turnVars, hostVars
<1>3. /\ ItemOK(s, i) /\ task[i] \in {"answered", "failed", "cancelled"}
      /\ s.status[i] \notin {"none", "routing"} /\ i \notin late
      /\ pc[t] \notin Uncollected /\ ~Duplicate(i) /\ result[i] # "answer"
  <2>1. ItemOK(s, i)
    BY Zenon, <1>0, <1>1 DEF TurnInv
  <2>2. pc[t] \notin Uncollected
    BY ZenonT(30), <1>0, <1>1, <1>2 DEF TurnInv, NothingHeld
  <2>3. /\ task[i] \in {"answered", "failed", "cancelled"} /\ s.status[i] \notin {"none", "routing"}
        /\ ~Duplicate(i) /\ result[i] # "answer"
    BY Zenon, <1>2, <2>1 DEF ItemOK, Outlives, Duplicate
  <2> QED
    BY ZenonT(60), <1>1, <2>1, <2>2, <2>3 DEF RestOK
<1>4. PICK y : y = LateCommitted(i, how)
  BY Zenon
<1>5. LateCommitsTo(i, how, y)
  BY Zenon, <1>1, <1>4, LateFacts
<1>6. PICK z : z = ReleaseLate(y, i)
  BY Zenon
<1>7. /\ z \in Sessions
      /\ z.turnTasks = y.turnTasks /\ z.workTasks = y.workTasks /\ z.known = y.known
      /\ z.cancelled = y.cancelled /\ z.queue = y.queue
      /\ z.status = y.status /\ z.committed = y.committed
      /\ z.owned[t] = y.owned[t] \ {i} /\ \A u \in Turns \ {t} : z.owned[u] = y.owned[u]
  BY Zenon, <1>0, <1>5, <1>6 DEF LateCommitsTo, ReleaseLate, Sessions
<1>8. PICK to \in Terminal : /\ to = LateStatus(i, how)
                             /\ to = "result_ready" => task[i] = "answered" /\ how = "valid"
  BY Zenon, <1>3 DEF LateStatus, Terminal
<1>9. PICK I : I = {i}
  BY Zenon
<1>10. EmitsTo(z, I, to, s')
  <2>1. to \in Statuses
    BY Zenon DEF Statuses
  <2>2. s' = EmitAll(z, I, to)
    BY ZenonT(60), <1>4, <1>6, <1>8, <1>9 DEF LateCommit, Emit
  <2> QED
    BY ZenonT(60), <1>7, <2>1, <2>2, EmitFacts
<1>11. /\ s' \in Sessions
       /\ s'.turnTasks = s.turnTasks /\ s'.workTasks = s.workTasks /\ s'.known \subseteq s.known
       /\ s'.cancelled \subseteq s.cancelled /\ s'.queue \subseteq s.queue
       /\ \A j \in Ids \ {i} : s'.committed[j] = s.committed[j] /\ s'.status[j] = s.status[j]
       /\ s.committed[i] \subseteq s'.committed[i]
       /\ task[i] # "answered" => s'.committed[i] = s.committed[i]
       /\ task[i] = "answered" /\ how = "valid" => "answer" \in s'.committed[i]
       /\ s'.owned[t] = s.owned[t] \ {i} /\ \A u \in Turns \ {t} : s'.owned[u] = s.owned[u]
       /\ s'.status[i] = IF Legal(s.status[i], to) THEN to ELSE s.status[i]
  BY <1>5, <1>7, <1>9, <1>10 DEF EmitsTo, LateCommitsTo
<1>12. s'.status[i] \in Terminal /\ (s'.status[i] = "result_ready" => "answer" \in s'.committed[i])
  <2>1. to \in Statuses /\ s.status[i] \in Statuses
    BY Zenon, <1>1 DEF Statuses, Sessions
  <2>2. s.status[i] \in Terminal \/ s.status[i] \in {"searching", "background"}
    BY Zenon, <1>3, <2>1 DEF Statuses
  <2>3. s.status[i] \in {"searching", "background"} => Legal(s.status[i], to)
    BY Zenon, <2>1, Transitions
  <2> QED
    BY ZenonT(60), <1>3, <1>8, <1>11, <2>2, <2>3 DEF ItemOK
<1>13. \A j \in Ids \ {i} : Outlives(j)' <=> Outlives(j)
  BY Zenon, <1>2 DEF Outlives
<1>14. TypeOK' /\ CancelledIsSilent'
  BY Zenon, <1>2, <1>11 DEF TInv, TypeOK, CancelledIsSilent
<1>15. TurnInv(t)'
  <2>1. Fresh(t)' /\ NothingHeld(t)' /\ Progress(t)' /\ CancelReaches(t)'
    BY Zenon, <1>2, <1>3 DEF Fresh, NothingHeld, Uncollected, Progress, CancelReaches, OnTheWay
  <2>2. Registered(t)' /\ Belongs(t, s)'
    BY ZenonT(30), <1>1, <1>2, <1>11 DEF TurnInv, Registered, Belongs
  <2>3. Over(t)'
    BY ZenonT(60), <1>1, <1>2, <1>11, <1>12, <1>13 DEF TurnInv, Belongs, Over
  <2>4. Speaking(t)'
    <3> SUFFICES ASSUME pc[t] = "speaking"
                 PROVE  /\ todo[t] \subseteq Items(t) /\ todo[t] # {}
                        /\ result[First(todo[t])] \in s'.committed[First(todo[t])]
                        /\ WillSettle(t, s, todo[t])'
      BY ZenonT(30), <1>2 DEF Speaking
    <3>1. /\ todo[t] \subseteq Items(t) /\ todo[t] # {}
          /\ result[First(todo[t])] \in s.committed[First(todo[t])]
          /\ WillSettle(t, s, todo[t])
      BY ZenonT(30), <1>1 DEF TurnInv, Speaking
    <3>2. First(todo[t]) \in Ids
      BY ZenonT(30), <1>1, <3>1, FirstItem
    <3>3. WillSettle(t, s, todo[t])'
      BY ZenonT(60), <1>1, <1>2, <1>11, <1>12, <1>13, <3>1 DEF TurnInv, Belongs, WillSettle
    <3> QED
      BY ZenonT(60), <1>11, <3>1, <3>2, <3>3
  <2>5. ASSUME NEW j \in Items(t) PROVE ItemOK(s, j)'
    <3>1. ItemOK(s, j) /\ j \in Ids /\ TurnOf(j) = t
      BY Zenon, <1>1 DEF TurnInv
    <3>2. CASE j = i
      <4>1. ~ Outlives(i)'
        BY Zenon, <1>2, <1>3 DEF Outlives
      <4>2. s'.status[i] \notin {"none", "routing"}
        BY Zenon, <1>12 DEF Terminal
      <4> QED
        BY ZenonT(60), <1>2, <1>3, <1>11, <1>12, <3>1, <3>2, <4>1, <4>2 DEF ItemOK
    <3>3. CASE j # i
      BY ZenonT(60), <1>2, <1>11, <1>13, <3>1, <3>3 DEF ItemOK
    <3> QED
      BY Zenon, <3>2, <3>3
  <2> QED
    BY ZenonT(60), <2>1, <2>2, <2>3, <2>4, <2>5 DEF TurnInv
<1>16. OnlyTurn(t) /\ Elsewhere(t, s, s')
  BY Zenon, <1>0, <1>2, <1>11 DEF OnlyTurn, Elsewhere
<1> QED
  BY ZenonT(60), <1>14, <1>15, <1>16, OthersKept DEF TInv

\* A step of the scheduler or of the connection takes speech out of the queue, and
\* a step that changes nothing keeps everything.
LEMMA QueueStepKeeps ==
  ASSUME TInv, UNCHANGED <<turnVars, workVars, capable, raises>>, live' \in BOOLEAN,
         NEW Q, Q \subseteq s.queue, s' = [s EXCEPT !.queue = Q]
  PROVE  TInv'
<1>1. /\ UNCHANGED <<pc, kind, index, todo, raised, asked, children, open, result, deferred>>
      /\ UNCHANGED <<task, stopping, late, callback>> /\ UNCHANGED <<capable, raises>>
  BY Zenon DEF turnVars, workVars
<1>2. /\ s' \in Sessions
      /\ s'.turnTasks = s.turnTasks /\ s'.workTasks = s.workTasks /\ s'.known = s.known
      /\ s'.cancelled = s.cancelled /\ s'.committed = s.committed /\ s'.queue = Q
      /\ s'.owned = s.owned /\ s'.status = s.status
  BY Zenon DEF TInv, TypeOK, Sessions
<1>3. TypeOK' /\ CancelledIsSilent'
  BY Zenon, <1>1, <1>2 DEF TInv, TypeOK, CancelledIsSilent
<1>4. ASSUME NEW u \in Turns PROVE TurnInv(u)'
  <2>1. Apart(u)
    BY Zenon, <1>1, <1>2 DEF Apart
  <2> QED
    BY Zenon, <2>1, ApartKept DEF TInv
<1> QED
  BY Zenon, <1>3, <1>4 DEF TInv

\* Every step of a turn keeps the invariant.
LEMMA TurnStepKeeps ==
  ASSUME TInv, NEW t \in Turns, TurnStep(t)
  PROVE  TInv'
<1>1. CASE Transcript(t)
  BY Zenon, <1>1, TranscriptKeeps
<1>2. CASE RoutedDirect(t)
  BY ZenonT(60), <1>2, RoutedDirectKeeps
<1>3. CASE RoutedPending(t)
  BY Zenon, <1>3, RoutedPendingKeeps
<1>4. CASE RoutedMulti(t)
  BY Zenon, <1>4, RoutedMultiKeeps
<1>5. CASE \E k \in {"single", "pending"} : RoutedMissing(t, k)
  BY Zenon, <1>5, RoutedMissingKeeps
<1>6. CASE \E accepted \in BOOLEAN : RoutedSingle(t, accepted)
  BY ZenonT(60), <1>6, RoutedSingleKeeps
<1>7. CASE AckReturns(t)
  BY Zenon, <1>7, AckReturnsKeeps
<1>8. CASE \E outcome \in {"delegate", "text", "missing"} : DecideItem(t, outcome)
  BY Zenon, <1>8, DecideItemKeeps
<1>9. CASE \E accepted \in SUBSET children[t] : Submit(t, accepted)
  BY Zenon, <1>9, SubmitKeeps
<1>10. CASE \E kept \in SUBSET Running(t) : Collect(t, kept)
  BY ZenonT(60), <1>10, CollectKeeps
<1>11. CASE SpeechReturns(t)
  BY Zenon, <1>11, SpeechReturnsKeeps
<1>12. CASE SpeechRaises(t)
  BY Zenon, <1>12, SpeechRaisesKeeps
<1>13. CASE \E target \in {Ids} \cup {{i} : i \in Ids} : RoutedCancel(t, target)
  BY ZenonT(60), <1>13, RoutedCancelKeeps
<1>14. CASE StopsReturn(t)
  BY Zenon, <1>14, StopsReturnKeeps
<1>15. CASE TurnCancelled(t)
  BY Zenon, <1>15, TurnCancelledKeeps
<1>16. CASE TurnUnwound(t)
  BY Zenon, <1>16, TurnUnwoundKeeps
<1>17. CASE TurnCallback(t)
  BY Zenon, <1>17, TurnCallbackKeeps
<1> QED
  BY ZenonT(60), <1>1, <1>2, <1>3, <1>4, <1>5, <1>6, <1>7, <1>8, <1>9, <1>10, <1>11, <1>12, <1>13,
     <1>14, <1>15, <1>16, <1>17 DEF TurnStep

\* The invariant holds of a new session.
LEMMA InitHolds ==
  ASSUME Init
  PROVE  TInv
<1>1. /\ pc = [t \in Turns |-> "none"] /\ kind = [t \in Turns |-> "none"]
      /\ index = [t \in Turns |-> 0] /\ todo = [t \in Turns |-> {}]
      /\ raised = {} /\ asked = {}
      /\ children = [t \in Turns |-> {}] /\ open = [t \in Turns |-> {}]
      /\ result = [i \in Ids |-> "none"] /\ deferred = [i \in Ids |-> "none"]
      /\ task = [i \in Ids |-> "none"] /\ stopping = {} /\ late = {} /\ callback = {}
      /\ live = TRUE /\ capable \in BOOLEAN /\ raises = 0
  BY Zenon DEF Init
<1>2. /\ s \in Sessions /\ s.turnTasks = {} /\ s.workTasks = {} /\ s.known = {}
      /\ s.cancelled = {} /\ s.queue = {}
      /\ s.status = [i \in Ids |-> "none"] /\ s.owned = [t \in Turns |-> {}]
      /\ s.committed = [i \in Ids |-> {}]
  BY ZenonT(30) DEF Init, Session, Sessions, Statuses, Results
<1>3. TypeOK
  <2>1. index \in [Turns -> 0..(MaxItems + 1)] /\ raises \in 0..MaxRaises
    BY <1>1, TurnAssumption
  <2>2. result \in [Ids -> Results]
    BY Zenon, <1>1 DEF Results
  <2> QED
    BY ZenonT(60), <1>1, <1>2, <2>1, <2>2 DEF TypeOK
<1>4. CancelledIsSilent
  BY Zenon, <1>2 DEF CancelledIsSilent
<1>5. ASSUME NEW t \in Turns PROVE TurnInv(t)
  <2>1. /\ pc[t] = "none" /\ kind[t] = "none" /\ children[t] = {} /\ open[t] = {}
        /\ s.owned[t] = {} /\ Items(t) \subseteq Ids
        /\ \A i \in Items(t) : TurnOf(i) = t
    BY Zenon, <1>1, <1>2, ItemsAreIds
  <2>2. Fresh(t) /\ Registered(t) /\ NothingHeld(t) /\ Belongs(t, s)
    BY ZenonT(30), <1>1, <1>2, <2>1 DEF Fresh, Registered, NothingHeld, Belongs
  <2>3. Progress(t) /\ CancelReaches(t) /\ Speaking(t) /\ Over(t)
    BY ZenonT(30), <2>1 DEF Progress, CancelReaches, OnTheWay, Speaking, Over
  <2>4. \A i \in Items(t) : ItemOK(s, i)
    BY Zenon, <1>1, <1>2, <2>1 DEF ItemOK, Outlives
  <2> QED
    BY Zenon, <2>2, <2>3, <2>4 DEF TurnInv
<1> QED
  BY Zenon, <1>3, <1>4, <1>5 DEF TInv

\* Every step of the session keeps the invariant.
LEMMA StepKeeps ==
  ASSUME TInv, [Next]_vars
  PROVE  TInv'
<1>0. s \in Sessions /\ live \in BOOLEAN
  BY Zenon DEF TInv, TypeOK
<1>1. CASE \E t \in Turns : TurnStep(t)
  BY Zenon, <1>1, TurnStepKeeps
<1>2. CASE \E i \in Ids, how \in {"answered", "failed", "cancelled"} : TaskEnds(i, how)
  BY Zenon, <1>2, TaskEndsKeeps
<1>3. CASE \E i \in Ids, how \in LateResults : LateCommit(i, how)
  BY Zenon, <1>3, LateCommitKeeps
<1>4. CASE \E q \in s.queue : Admit(q)
  <2>1. PICK q \in s.queue : Admit(q)
    BY Zenon, <1>4
  <2>2. PICK Q : Q = s.queue \ {q}
    BY Zenon
  <2>3. Q \subseteq s.queue /\ s' = [s EXCEPT !.queue = Q]
    BY Zenon, <2>1, <2>2 DEF Admit
  <2>4. UNCHANGED <<turnVars, workVars, capable, raises>> /\ live' \in BOOLEAN
    BY Zenon, <1>0, <2>1 DEF Admit, hostVars
  <2> QED
    BY Zenon, <2>3, <2>4, QueueStepKeeps
<1>5. CASE Disconnect
  <2>1. {} \subseteq s.queue /\ s' = [s EXCEPT !.queue = {}]
    BY Zenon, <1>5 DEF Disconnect
  <2>2. UNCHANGED <<turnVars, workVars, capable, raises>> /\ live' \in BOOLEAN
    BY Zenon, <1>5 DEF Disconnect
  <2> QED
    BY <2>1, <2>2, QueueStepKeeps
<1>6. CASE UNCHANGED vars
  <2>1. PICK Q : Q = s.queue
    BY Zenon
  <2>2. Q \subseteq s.queue /\ s' = [s EXCEPT !.queue = Q]
    BY ZenonT(60), <1>0, <1>6, <2>1 DEF Sessions, vars
  <2>3. UNCHANGED <<turnVars, workVars, capable, raises>> /\ live' \in BOOLEAN
    BY Zenon, <1>0, <1>6 DEF vars, hostVars
  <2> QED
    BY Zenon, <2>2, <2>3, QueueStepKeeps
<1> QED
  BY ZenonT(60), <1>1, <1>2, <1>3, <1>4, <1>5, <1>6 DEF Next

\* The invariant says what the three properties say.
LEMMA WhatHolds ==
  ASSUME TInv
  PROVE  ReadyMeansCommitted /\ EveryChildSettles
<1>1. ReadyMeansCommitted
  <2> SUFFICES ASSUME NEW i \in Ids
               PROVE  /\ s.status[i] = "result_ready" => "answer" \in s.committed[i]
                      /\ i \in late /\ i \notin stopping => s.status[i] \notin Terminal
    BY Zenon DEF ReadyMeansCommitted
  <2>1. PICK t \in Turns : i \in Items(t)
    BY Zenon DEF Ids, Items
  <2>2. ItemOK(s, i)
    BY Zenon, <2>1 DEF TInv, TurnInv
  <2> QED
    BY Zenon, <2>2 DEF ItemOK
<1>2. EveryChildSettles
  BY Zenon DEF TInv, TurnInv, Over, EveryChildSettles
<1> QED
  BY Zenon, <1>1, <1>2

\* TInv is an invariant of the turn handlers.
THEOREM TurnInvariance == Spec => []TInv
<1>1. Init => TInv
  BY Zenon, InitHolds
<1>2. TInv /\ [Next]_vars => TInv'
  BY Zenon, StepKeeps
<1> QED
  BY <1>1, <1>2, PTL DEF Spec

\* The state of the session, of its turns and of their work is well formed.
THEOREM TurnTypeOKAlways == Spec => []TypeOK
<1>1. TInv => TypeOK
  BY Zenon DEF TInv
<1> QED
  BY <1>1, TurnInvariance, PTL

\* No child of any turn is published as result_ready before its result is
\* committed, and none that will still be delivered is published as settled,
\* whatever _commit_and_speak, a late commit or a voice cancellation interleave.
THEOREM ReadyMeansCommittedAlways == Spec => []ReadyMeansCommitted
<1>1. TInv => ReadyMeansCommitted
  BY ZenonT(60), WhatHolds
<1> QED
  BY <1>1, TurnInvariance, PTL

\* No speech is queued for a work item that _cancel_work has marked cancelled.
THEOREM CancelledIsSilentAlways == Spec => []CancelledIsSilent
<1>1. TInv => CancelledIsSilent
  BY Zenon DEF TInv
<1> QED
  BY <1>1, TurnInvariance, PTL

\* When a turn is over, however it ended, each child it delegated is settled or
\* outlives it, and it owns nothing but work that outlives it.
THEOREM EveryChildSettlesAlways == Spec => []EveryChildSettles
<1>1. TInv => EveryChildSettles
  BY Zenon, WhatHolds
<1> QED
  BY <1>1, TurnInvariance, PTL
==============================================================================
