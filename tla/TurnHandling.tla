----------------------------- MODULE TurnHandling -----------------------------
(***************************************************************************)
(* The turn handlers of SessionHost (server/pipeline.py): what one user    *)
(* turn delegates, commits, speaks, publishes and releases, with the shared *)
(* epilogues of server/turn_epilogue.py, the host's task ledger            *)
(* (server/work_task_ledger.py), voice cancellation, and the late commit   *)
(* of work that outlived its turn.                                         *)
(*                                                                         *)
(* A turn is one task; its steps are the segments between two awaits.      *)
(* The coordinator is abstracted to what WorkDelivery promises: an item    *)
(* runs, is answered in the foreground or retained, and a retained item's  *)
(* callback runs once.  The acknowledgement's own life is TurnAckLedger's  *)
(* and the aggregation of statuses WorkStatusLedger's.                     *)
(***************************************************************************)
EXTENDS Integers

CONSTANTS Turns,
          Delegating, \* the turns that may delegate work
          MaxItems,  \* work items of a compound turn
          MaxRaises  \* bound on start_next calls that raise

ASSUME TurnAssumption == Delegating \subseteq Turns /\ MaxItems \in Nat \ {0} /\ MaxRaises \in Nat

\* work-{turn} and work-{turn}-{index}.
Own(t) == <<t, 0>>
Ids == Turns \X (0..MaxItems)
TurnOf(i) == i[1]

VARIABLES
  pc,       \* where each turn's task waits
  kind,     \* per turn: "direct", "control", "single", "pending" or "multi"
  index,    \* next item of a compound turn's loop
  todo,     \* results the commit loop has left, its current one included
  raised,   \* turns in whose loop a commit raised
  asked,    \* turns whose task has a cancellation to be delivered
  children, \* delegated_children
  open,     \* retained_still_open / retained_work_items
  result,   \* per id, what the turn has to commit for it
  deferred, \* per id, the status held back until that commit
  \* the coordinator
  task,     \* per id: "none", "running", or how it ended
  stopping, \* ids whose task was asked to cancel
  late,     \* ids retained, still running
  callback, \* ids whose late callback has started and not run
  \* the session
  s,        \* see Session
  live,     \* the origin connection is current, active and accepted
  capable,  \* the client replaces the notice by the background status
  raises    \* start_next calls that raised

turnVars == <<pc, kind, index, todo, raised, asked, children, open, result, deferred>>
workVars == <<task, stopping, late, callback>>
hostVars == <<live, capable, raises>>

vars == <<turnVars, workVars, s, hostVars>>

(***************************************************************************)
(* The session: the ledger's turn_tasks, work_tasks, known_ids and         *)
(* cancelled_ids; each child's work status; what was committed for an id;  *)
(* speech queued and not admitted; the turn's registered work items.       *)
(***************************************************************************)
Session == [turnTasks |-> {}, workTasks |-> {}, known |-> {}, cancelled |-> {},
            status |-> [i \in Ids |-> "none"],
            committed |-> [i \in Ids |-> {}],
            queue |-> {},
            owned |-> [t \in Turns |-> {}]]

Terminal == {"result_ready", "failed", "cancelled"}

Statuses == {"none", "routing", "searching", "background"} \cup Terminal
Results == {"none", "text", "answer", "notice"}

Sessions == [turnTasks : SUBSET Ids, workTasks : SUBSET Ids, known : SUBSET Ids,
             cancelled : SUBSET Ids, status : [Ids -> Statuses],
             committed : [Ids -> SUBSET Results], queue : SUBSET (Ids \X Results),
             owned : [Turns -> SUBSET Ids]]

\* The transitions of WorkStatusLedger, for one child.
Legal(from, to) ==
  CASE from = "none"       -> to \in {"routing", "searching", "failed"}
    [] from = "routing"    -> to \in {"searching", "failed", "cancelled"}
    [] from = "searching"  -> to \in {"background"} \cup Terminal
    [] from = "background" -> to \in Terminal
    [] OTHER               -> FALSE

EmitAll(x, I, to) ==
  [x EXCEPT !.status = [i \in Ids |-> IF i \in I /\ Legal(@[i], to) THEN to ELSE @[i]]]

Emit(x, i, to) == EmitAll(x, {i}, to)

-----------------------------------------------------------------------------
(***************************************************************************)
(* Committing.                                                             *)
(***************************************************************************)
\* _commit_result_state and the retirement that follows it.
CommitState(x, i, what) ==
  [x EXCEPT !.committed[i] = @ \cup {what}, !.known = @ \ {i}]

\* The cancelled short-circuit of _commit_and_speak consumes the marker.
Suppress(x, i) == [x EXCEPT !.cancelled = @ \ {i}, !.known = @ \ {i}]

Settled(x, i) ==
  IF i \in x.cancelled /\ deferred'[i] # "none" THEN "cancelled" ELSE deferred'[i]

\* Commits that do not speak, and the statuses they held back: each touches its own
\* item only.
SettleAll(x, I) ==
  [x EXCEPT !.cancelled = @ \ I, !.known = @ \ I,
            !.committed = [i \in Ids |-> IF i \in I \ x.cancelled THEN @[i] \cup {result'[i]}
                                                                ELSE @[i]],
            !.status = [i \in Ids |-> IF i \in I /\ Legal(@[i], Settled(x, i))
                                       THEN Settled(x, i) ELSE @[i]]]

\* Slip: a cancelled item is spoken.
SpeaksCancelled(x, i) == live

Speaks(x, i) == live /\ i \notin x.cancelled

CommitAndSpeak(x, i) ==
  LET y == CommitState(x, i, result'[i]) IN [y EXCEPT !.queue = @ \cup {<<i, result'[i]>>}]

-----------------------------------------------------------------------------
(***************************************************************************)
(* The end of a turn: _finalize_turn_exception, the handlers' finally      *)
(* blocks, and the done callback of the turn task.                         *)
(***************************************************************************)

Swept(t) == children[t] \ open'[t]

\* The handler's own release, then, for a turn that _handle_pending or
\* _handle_multi_intent handled, that of _handle_transcript_impl around it.
Release(x, t) ==
  [x EXCEPT !.owned[t] = IF kind'[t] = "single" /\ open'[t] # {} THEN @ ELSE {}]

\* Slip: a failed turn leaves its children as they are.
EndStateUnswept(x, t, how) == Release(x, t)

EndState(x, t, how) ==
  Release(IF how = "returned" THEN x ELSE EmitAll(x, Swept(t), how), t)

End(t, x, how) ==
  /\ s' = EndState(x, t, how)
  /\ pc' = [pc EXCEPT ![t] = "ended"]
  /\ todo' = [todo EXCEPT ![t] = {}]

\* register_turn_task's completed.
TurnCallback(t) ==
  /\ pc[t] = "ended"
  /\ pc' = [pc EXCEPT ![t] = "over"]
  /\ asked' = asked \ {t}
  /\ s' = LET x == [s EXCEPT !.turnTasks = @ \ {Own(t)}] IN
          IF Own(t) \in s.workTasks THEN x
          ELSE [x EXCEPT !.known = @ \ {Own(t)}, !.cancelled = @ \ {Own(t)}]
  /\ UNCHANGED <<kind, index, todo, raised, children, open, result, deferred,
                 workVars, hostVars>>

(***************************************************************************)
(* Commit what is left to commit up to the first result that is spoken,    *)
(* where the turn waits for start_next; end the turn if there is none.     *)
(* The items of a turn are taken in the order of their index.              *)
(***************************************************************************)
First(I) == CHOOSE i \in I : \A j \in I : i[2] <= j[2]
Before(I, i) == {j \in I : j[2] < i[2]}

Advance(t, x, left, how) ==
  LET spoken == {i \in left : Speaks(x, i)} IN
  IF spoken = {} THEN End(t, SettleAll(x, left), how)
  ELSE LET i == First(spoken) IN
       /\ s' = CommitAndSpeak(SettleAll(x, Before(left, i)), i)
       /\ pc' = [pc EXCEPT ![t] = "speaking"]
       /\ todo' = [todo EXCEPT ![t] = left \ Before(left, i)]

\* start_next returns: the status held back for the current result, then on.
SpeechReturns(t) ==
  /\ pc[t] = "speaking" /\ t \notin asked
  /\ UNCHANGED <<kind, index, raised, asked, children, open, result, deferred,
                 workVars, hostVars>>
  /\ LET i == First(todo[t]) IN
     Advance(t, Emit(s, i, deferred[i]), todo[t] \ {i},
             IF t \in raised THEN "failed" ELSE "returned")

\* start_next raises: the result stays committed, its status is failed, and
\* the exception leaves the turn once its siblings are committed.
SpeechRaises(t) ==
  /\ pc[t] = "speaking" /\ t \notin asked /\ raises < MaxRaises
  /\ raises' = raises + 1
  /\ raised' = raised \cup {t}
  /\ UNCHANGED <<kind, index, asked, children, open, result, deferred,
                 workVars, live, capable>>
  /\ LET i == First(todo[t]) IN
     Advance(t, IF deferred[i] = "none" THEN s ELSE Emit(s, i, "failed"),
             todo[t] \ {i}, "failed")

-----------------------------------------------------------------------------
(***************************************************************************)
(* From the transcript to the delegation.                                  *)
(***************************************************************************)
\* _handle_transcript_impl up to the arbitration thread.
Transcript(t) ==
  /\ pc[t] = "none" /\ live
  /\ pc' = [pc EXCEPT ![t] = "routing"]
  /\ s' = [s EXCEPT !.turnTasks = @ \cup {Own(t)}, !.known = @ \cup {Own(t)}]
  /\ UNCHANGED <<kind, index, todo, raised, asked, children, open, result,
                 deferred, workVars, hostVars>>

\* A reply of the main responder, or a safe text where routing failed.
RoutedDirect(t) ==
  /\ pc[t] = "routing" /\ t \notin asked
  /\ kind' = [kind EXCEPT ![t] = "direct"]
  /\ result' = [result EXCEPT ![Own(t)] = "text"]
  /\ UNCHANGED <<index, raised, asked, children, open, deferred, workVars, hostVars>>
  /\ Advance(t, s, {Own(t)}, "returned")

\* _begin_delegation rejects the only child: the worker or its search is
\* missing, and the turn returns.
RoutedMissing(t, k) ==
  /\ pc[t] = "routing" /\ t \notin asked /\ t \in Delegating
  /\ kind' = [kind EXCEPT ![t] = k]
  /\ UNCHANGED <<index, raised, asked, children, open, result, deferred, workVars, hostVars>>
  /\ End(t, Emit(s, Own(t), "failed"), "returned")

\* _begin_delegation.
BeginDelegation(x, i) ==
  Emit([x EXCEPT !.known = @ \cup {i}, !.owned[TurnOf(i)] = @ \cup {i}], i, "routing")

\* One worker: the search is dispatched, or refused for lack of capacity,
\* before the acknowledgement is awaited.
RoutedSingle(t, accepted) ==
  /\ pc[t] = "routing" /\ t \notin asked /\ t \in Delegating
  /\ kind' = [kind EXCEPT ![t] = "single"]
  /\ children' = [children EXCEPT ![t] = {Own(t)}]
  /\ task' = [task EXCEPT ![Own(t)] = IF accepted THEN "running" ELSE "rejected"]
  /\ s' = LET x == Emit(BeginDelegation(s, Own(t)), Own(t), "searching") IN
          IF accepted THEN [x EXCEPT !.workTasks = @ \cup {Own(t)}] ELSE x
  /\ pc' = [pc EXCEPT ![t] = "acking"]
  /\ UNCHANGED <<index, todo, raised, asked, open, result, deferred,
                 stopping, late, callback, hostVars>>

AckReturns(t) ==
  /\ pc[t] = "acking" /\ kind[t] = "single" /\ t \notin asked
  /\ pc' = [pc EXCEPT ![t] = "waiting"]
  /\ UNCHANGED <<kind, index, todo, raised, asked, children, open, result,
                 deferred, workVars, s, hostVars>>

\* _handle_pending up to the acknowledgement.
RoutedPending(t) ==
  /\ pc[t] = "routing" /\ t \notin asked /\ t \in Delegating
  /\ kind' = [kind EXCEPT ![t] = "pending"]
  /\ children' = [children EXCEPT ![t] = {Own(t)}]
  /\ s' = BeginDelegation(s, Own(t))
  /\ pc' = [pc EXCEPT ![t] = "acking"]
  /\ UNCHANGED <<index, todo, raised, asked, open, result, deferred, workVars, hostVars>>

RoutedMulti(t) ==
  /\ pc[t] = "routing" /\ t \notin asked /\ t \in Delegating
  /\ kind' = [kind EXCEPT ![t] = "multi"]
  /\ index' = [index EXCEPT ![t] = 1]
  /\ pc' = [pc EXCEPT ![t] = "deciding"]
  /\ UNCHANGED <<todo, raised, asked, children, open, result, deferred,
                 workVars, s, hostVars>>

\* One item of a compound turn: delegated (and acknowledged), answered by a
\* text, or rejected because its worker is missing.
DecideItem(t, outcome) ==
  LET i == <<t, index[t]>> IN
  /\ pc[t] = "deciding" /\ index[t] <= MaxItems /\ t \notin asked
  /\ index' = [index EXCEPT ![t] = @ + 1]
  /\ children' = [children EXCEPT ![t] = IF outcome = "delegate" THEN @ \cup {i} ELSE @]
  /\ result' = [result EXCEPT ![i] = IF outcome = "delegate" THEN @ ELSE "text"]
  /\ s' = CASE outcome = "delegate" -> BeginDelegation(s, i)
            [] outcome = "missing"  -> Emit(s, i, "failed")
            [] OTHER                -> s
  /\ UNCHANGED <<pc, kind, todo, raised, asked, open, deferred, workVars, hostVars>>

\* coordinator.submit: every child is searching, and starts if there is room.
Submit(t, accepted) ==
  /\ \/ pc[t] = "acking" /\ kind[t] = "pending"
     \/ pc[t] = "deciding" /\ index[t] > MaxItems
  /\ t \notin asked
  /\ task' = [i \in Ids |-> IF i \notin children[t] THEN task[i]
                            ELSE IF i \in accepted THEN "running" ELSE "rejected"]
  /\ s' = EmitAll(s, children[t], "searching")
  /\ pc' = [pc EXCEPT ![t] = "waiting"]
  /\ UNCHANGED <<kind, index, todo, raised, asked, children, open, result,
                 deferred, stopping, late, callback, hostVars>>

-----------------------------------------------------------------------------
(***************************************************************************)
(* The work.                                                               *)
(***************************************************************************)
\* A task ends, its done callbacks included: it leaves the ledger, and if it
\* was retained its late callback starts.
TaskEnds(i, how) ==
  /\ task[i] = "running"
  /\ how = "cancelled" => i \in stopping
  /\ task' = [task EXCEPT ![i] = how]
  /\ s' = [s EXCEPT !.workTasks = @ \ {i}]
  /\ late' = late \ {i}
  /\ callback' = IF i \in late THEN callback \cup {i} ELSE callback
  /\ UNCHANGED <<turnVars, stopping, hostVars>>

Running(t) == {i \in children[t] : task[i] = "running"}

\* retained_still_open, or retained_work_items.
StillOpen(t, kept) == IF kind[t] # "multi" /\ capable THEN kept ELSE kept \ s.cancelled

ResultOf(i, kept) ==
  IF i \in kept THEN (IF capable THEN "none" ELSE "notice")
  ELSE IF task[i] = "answered" THEN "answer" ELSE "text"

\* The status to publish after the commit (the derivations of
\* work_status_publisher).
Derived(t, i, kept) ==
  IF i \in kept /\ (kind[t] = "multi" \/ i \notin s.cancelled) THEN "none"
  ELSE IF i \in s.cancelled THEN "cancelled"
  ELSE IF task[i] = "answered" THEN "result_ready" ELSE "failed"

\* The status of a retained child, published at once.
PublishRetained(t, kept) ==
  IF kind[t] = "multi"
  THEN EmitAll(EmitAll(s, kept \ s.cancelled, "background"), kept \cap s.cancelled, "cancelled")
  ELSE EmitAll(s, kept, "background")

\* The wait is over: what is done is taken, what is not is retained or, if
\* the coordinator refuses, given up; then the epilogue commits.
Collect(t, kept) ==
  /\ pc[t] = "waiting" /\ t \notin asked
  /\ open' = [open EXCEPT ![t] = StillOpen(t, kept)]
  /\ result' = [i \in Ids |-> IF i \in children[t] THEN ResultOf(i, kept) ELSE result[i]]
  /\ deferred' = [i \in Ids |-> IF i \in children[t] THEN Derived(t, i, kept) ELSE deferred[i]]
  /\ late' = late \cup kept
  /\ stopping' = stopping \cup (Running(t) \ kept)
  /\ UNCHANGED <<kind, index, raised, asked, children, task, callback, hostVars>>
  /\ Advance(t, PublishRetained(t, kept),
             {i \in {t} \X (0..MaxItems) : result'[i] # "none"}, "returned")

-----------------------------------------------------------------------------
(***************************************************************************)
(* commit_late_result_once.  A task that answered may have returned no     *)
(* grounded result, or one of another epoch, and the commit may raise.     *)
(***************************************************************************)
LateResults == {"valid", "invalid", "stale", "raises"}

\* The fence behind those two: the result is already in the session.
Duplicate(i) == "answer" \in s.committed[i]

\* discard_queued_notice, where the origin can still speak.
WithoutNotice(x, i) ==
  IF live THEN [x EXCEPT !.queue = @ \ {<<i, "notice">>}] ELSE x

\* Slip: the status does not look at whether the result was committed.
LateStatusUnguarded(i, how) ==
  CASE task[i] # "answered"   -> task[i]
    [] Duplicate(i)           -> "none"
    [] OTHER                  -> IF i \in s.cancelled THEN "cancelled" ELSE "result_ready"

\* late_commit_work_status; "none": nothing is published.
LateStatus(i, how) ==
  CASE task[i] # "answered"                     -> task[i]
    [] Duplicate(i) /\ how \in {"valid", "raises"} -> "none"
    [] OTHER                                    ->
         IF i \in s.cancelled THEN "cancelled"
         ELSE IF how = "valid" THEN "result_ready" ELSE "failed"

\* An error leaves the cancelled marker; every other outcome consumes it.
LateCommitted(i, how) ==
  IF task[i] # "answered" THEN [s EXCEPT !.known = @ \ {i}]
  ELSE IF how # "valid" \/ Duplicate(i) THEN Suppress(s, i)
  ELSE IF i \in s.cancelled THEN CommitState(Suppress(s, i), i, "answer")
  ELSE WithoutNotice(CommitState(s, i, "answer"), i)

ReleaseLate(x, i) == [x EXCEPT !.owned[TurnOf(i)] = @ \ {i}]

LateCommit(i, how) ==
  /\ i \in callback
  /\ callback' = callback \ {i}
  /\ s' = Emit(ReleaseLate(LateCommitted(i, how), i), i, LateStatus(i, how))
  /\ UNCHANGED <<turnVars, task, stopping, late, hostVars>>

-----------------------------------------------------------------------------
(***************************************************************************)
(* Cancellation.                                                           *)
(***************************************************************************)
\* coordinator.cancel: the items it has a task for.
CoordinatorCancel(target) ==
  {i \in target : task[i] = "running" /\ kind[TurnOf(i)] \in {"pending", "multi"}}

\* _cancel_work.
Selected(c, target) ==
  (((s.turnTasks \cup s.workTasks) \cap target)
    \cup CoordinatorCancel(target)
    \cup (IF target = Ids THEN s.known ELSE {})) \ {Own(c)}

\* A control turn cancels one work item, or everything (target = Ids), and
\* goes on to tell the user what it hit.
RoutedCancel(c, target) ==
  LET selected == Selected(c, target)
      speech == {q \in s.queue : q[1] \in target}
  IN
  /\ pc[c] = "routing" /\ c \notin asked
  /\ kind' = [kind EXCEPT ![c] = "control"]
  /\ asked' = asked \cup {t \in Turns : Own(t) \in selected \cap s.turnTasks /\ pc[t] # "ended"}
  /\ stopping' = stopping \cup (selected \cap s.workTasks)
                          \cup {i \in CoordinatorCancel(target) : i # Own(c)}
  /\ s' = [s EXCEPT !.cancelled = @ \cup selected, !.queue = @ \ speech]
  /\ pc' = [pc EXCEPT ![c] = "stopping"]
  /\ UNCHANGED <<index, todo, raised, children, open, result, deferred, task,
                 late, callback, hostVars>>

\* wait_for_stops returns: the control turn commits its answer.
StopsReturn(c) ==
  /\ pc[c] = "stopping" /\ c \notin asked
  /\ result' = [result EXCEPT ![Own(c)] = "text"]
  /\ UNCHANGED <<kind, index, raised, asked, children, open, deferred, workVars, hostVars>>
  /\ Advance(c, s, {Own(c)}, "returned")

\* The cancellation of a turn is delivered.  While it waits for its work it
\* cancels that work, and waits for it to stop.
TurnCancelled(t) ==
  /\ t \in asked /\ pc[t] \notin {"unwinding", "ended"}
  /\ IF pc[t] = "waiting"
     THEN /\ pc' = [pc EXCEPT ![t] = "unwinding"]
          /\ stopping' = stopping \cup Running(t)
          /\ UNCHANGED <<s, todo, kind, open>>
     ELSE /\ UNCHANGED <<kind, open, stopping>>
          /\ End(t, s, "cancelled")
  /\ asked' = asked \ {t}
  /\ UNCHANGED <<index, raised, children, result, deferred, task, late,
                 callback, hostVars>>

\* Its work has stopped, or a second cancellation interrupts the wait.
TurnUnwound(t) ==
  /\ pc[t] = "unwinding" /\ (t \notin asked => Running(t) = {})
  /\ UNCHANGED <<kind, index, raised, asked, children, open, result, deferred,
                 workVars, hostVars>>
  /\ End(t, s, "cancelled")

\* The scheduler admits queued speech.
Admit(q) ==
  /\ q \in s.queue
  /\ s' = [s EXCEPT !.queue = @ \ {q}]
  /\ UNCHANGED <<turnVars, workVars, hostVars>>

\* The connection is replaced: its queue is swept.
Disconnect ==
  /\ live
  /\ live' = FALSE
  /\ s' = [s EXCEPT !.queue = {}]
  /\ UNCHANGED <<turnVars, workVars, capable, raises>>

Init ==
  /\ pc = [t \in Turns |-> "none"] /\ kind = [t \in Turns |-> "none"]
  /\ index = [t \in Turns |-> 0] /\ todo = [t \in Turns |-> {}]
  /\ raised = {} /\ asked = {}
  /\ children = [t \in Turns |-> {}] /\ open = [t \in Turns |-> {}]
  /\ result = [i \in Ids |-> "none"] /\ deferred = [i \in Ids |-> "none"]
  /\ task = [i \in Ids |-> "none"] /\ stopping = {} /\ late = {} /\ callback = {}
  /\ s = Session
  /\ live = TRUE /\ capable \in BOOLEAN /\ raises = 0

TurnStep(t) ==
  \/ Transcript(t) \/ RoutedDirect(t) \/ RoutedPending(t) \/ RoutedMulti(t)
  \/ \E k \in {"single", "pending"} : RoutedMissing(t, k)
  \/ \E accepted \in BOOLEAN : RoutedSingle(t, accepted)
  \/ AckReturns(t)
  \/ \E outcome \in {"delegate", "text", "missing"} : DecideItem(t, outcome)
  \/ \E accepted \in SUBSET children[t] : Submit(t, accepted)
  \/ \E kept \in SUBSET Running(t) : Collect(t, kept)
  \/ SpeechReturns(t) \/ SpeechRaises(t)
  \/ \E target \in {Ids} \cup {{i} : i \in Ids} : RoutedCancel(t, target)
  \/ StopsReturn(t) \/ TurnCancelled(t) \/ TurnUnwound(t) \/ TurnCallback(t)

Next ==
  \/ \E t \in Turns : TurnStep(t)
  \/ \E i \in Ids, how \in {"answered", "failed", "cancelled"} : TaskEnds(i, how)
  \/ \E i \in Ids, how \in LateResults : LateCommit(i, how)
  \/ \E q \in s.queue : Admit(q)
  \/ Disconnect

Spec == Init /\ [][Next]_vars

-----------------------------------------------------------------------------
(***************************************************************************)
(* Properties.                                                             *)
(***************************************************************************)
\* Every variable has its type; a refused child has no task to wait for, and
\* only work that runs is retained.
TypeOK ==
  /\ pc \in [Turns -> {"none", "routing", "acking", "deciding", "waiting", "speaking",
                       "stopping", "unwinding", "ended", "over"}]
  /\ kind \in [Turns -> {"none", "direct", "control", "single", "pending", "multi"}]
  /\ index \in [Turns -> 0..(MaxItems + 1)]
  /\ raised \subseteq Turns /\ asked \subseteq Turns
  /\ todo \in [Turns -> SUBSET Ids] /\ children \in [Turns -> SUBSET Ids]
  /\ open \in [Turns -> SUBSET Ids] /\ \A t \in Turns : open[t] \subseteq children[t]
  /\ result \in [Ids -> Results]
  /\ deferred \in [Ids -> {"none"} \cup Terminal]
  /\ task \in [Ids -> {"none", "running", "rejected", "answered", "failed", "cancelled"}]
  /\ stopping \subseteq Ids /\ callback \subseteq Ids
  /\ late \subseteq {i \in Ids : task[i] = "running"}
  /\ live \in BOOLEAN /\ capable \in BOOLEAN /\ raises \in 0..MaxRaises
  /\ s \in Sessions /\ s.workTasks \subseteq {i \in Ids : task[i] = "running"}

\* A child is published as result_ready only once its result is committed: a
\* cancellation before or during the commit, speech that raises after it (the
\* comment of finalize_single_child_turn), and a late result that a fence of
\* commit_late_result_once stops or whose commit raises, publish another status.
\* And work that will still be delivered is not already published as settled,
\* unless the user cancelled it.
ReadyMeansCommitted ==
  /\ \A i \in Ids : s.status[i] = "result_ready" => "answer" \in s.committed[i]
  /\ \A i \in Ids : i \in late /\ task[i] = "running" /\ i \notin stopping
       => s.status[i] \notin Terminal

\* Nothing is queued to be spoken for a work item the user has cancelled.
CancelledIsSilent == \A q \in s.queue : q[1] \notin s.cancelled

\* Work that is still pending past its turn: retained, or about to commit.
Outlives(i) == i \in late \cup callback

\* When a turn is over, however it ended, each of its delegated children has
\* a terminal status or is retained work whose late commit will give it one;
\* and the turn owns nothing but such work, so that the ownership its
\* acknowledgement rests on is always released.
EveryChildSettles ==
  \A t \in Turns : pc[t] = "over" =>
    /\ \A i \in children[t] : s.status[i] \in Terminal \/ Outlives(i)
    /\ \A i \in s.owned[t] : Outlives(i)

-----------------------------------------------------------------------------
(* What a comment, a document or a test says, and the code does not do. *)

\* What the comment in _handle_multi_intent says: retained children keep
\* their registry entry past the handler's return, until their late commit.
RetainedKeepsOwnership ==
  \A i \in Ids : Outlives(i) /\ i \in open[TurnOf(i)] => i \in s.owned[TurnOf(i)]

\* What commit_late_result_once says: a "taking longer" notice is not left
\* to be spoken after the result it announces has committed.
NoNoticeAfterResult ==
  \A i \in Ids : <<i, "notice">> \in s.queue => "answer" \notin s.committed[i]

\* What the comment at the end of the fan-in says: an id leaves the ledger
\* when its late result or an explicit cancel arrives.
KnownUntilSettled ==
  \A i \in s.known : pc[TurnOf(i)] = "over" /\ task[i] # "running" => Outlives(i)

\* What the ledger's docstring says: known_ids lets a whole-connection cancel
\* reach a work item whose task already completed.
ReachableUntilCommitted == callback \subseteq s.known
=============================================================================
