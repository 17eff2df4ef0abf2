--------------------------- MODULE TurnRecorders ---------------------------
(***************************************************************************)
(* The telemetry recorders of server/perf_metrics.py and their registry in *)
(* server/recorder_factory.py, driven by the turn handlers, the            *)
(* coordinator's late-completion callbacks and the host's shutdown.        *)
(*                                                                         *)
(* An accepted turn owns one AppTurnRecorder; every work item it routes    *)
(* owns a WorkItemRecorder, a child of it; every work item it dispatches   *)
(* also owns a RetainedRecorder, which is registered only if the item      *)
(* outlives the foreground wait.  The recorders emit the records           *)
(* app_turn_foreground, work_item_foreground and work_item_background.     *)
(*                                                                         *)
(* A record is abstracted to its outcome fields: missing_worker and        *)
(* missing_search are "missing", capacity_rejected and retention_rejected  *)
(* are "rejected", direct and unsupported are "direct".  Durations,        *)
(* identifiers and the speech axis of the background record are left out.  *)
(***************************************************************************)
EXTENDS Naturals, Sequences, FiniteSets

CONSTANTS
    Turns,          \* the semantic turns the host accepts
    Width           \* [Turns -> Nat]: how many work items a turn may have

WidthAssumption == Width \in [Turns -> Nat \ {0}]

Items == UNION {{t} \X (1..Width[t]) : t \in Turns}
KidsOf(t) == {i \in Items : i[1] = t}
\* A single-intent turn has one work item.
Sole(t) == <<t, 1>>

Counters == {"direct", "completed", "retained", "clarify", "declined", "failed", "cancelled"}
Outcomes == Counters \cup {"missing", "rejected"}
Kinds == {"completed", "failed", "cancelled"}

VARIABLES
    pc,         \* [Turns -> ...]: where the turn's handler is
    answer,     \* [Turns -> ...]: the outcome an answering turn will finalize
    book,       \* the foreground recorders and what they have emitted
    label,      \* [Items -> ...]: child_outcome_label of a single-intent child
    task,       \* [Items -> ...]: the item's worker task
    kind,       \* [Items -> ...]: how the task ended
    stopping,   \* items whose task has been sent a cancellation
    claim,      \* [Items -> ...]: the RetainedRecorder's work_outcome
    registry,   \* RecorderFactory._retained_recorders
    background, \* [Items -> Seq]: the work_item_background records
    calls,      \* items whose late-completion callback task has not run
    cancelled,  \* WorkTaskLedger.cancelled_ids
    host        \* "open", "closing", "draining" or "down"

vars == <<pc, answer, book, label, task, kind, stopping, claim, registry,
          background, calls, cancelled, host>>
handler == <<pc, answer, label>>
late == <<claim, registry, background, calls, cancelled>>

----------------------------------------------------------------------------
(* AppTurnRecorder and WorkItemRecorder.                                   *)

\* A recorder's _finalized latch is set in the step that emits its record.
TurnFinalized(b, t) == b.turn[t] # <<>>
ChildFinalized(b, i) == b.child[i] # <<>>

\* _CHILD_COUNTER_FOR_OUTCOME.
CounterFor(o) == IF o \in Counters THEN o ELSE "failed"

\* AppTurnRecorder.new_child, for each of a turn's items.
NewChildren(b, t, is) == [b EXCEPT !.open[t] = @ \cup is]

\* The children whose finalize is not stopped by their latch.
Unfinalized(b, is) == {i \in is : ~ChildFinalized(b, i)}

\* WorkItemRecorder.finalize and the owning turn's _record_child, for each
\* child of a set with its outcome.
FinalizeChildren(b, outcome) ==
    LET is == Unfinalized(b, DOMAIN outcome)
        Gain(t, c) == Cardinality({i \in is : i[1] = t /\ CounterFor(outcome[i]) = c})
    IN [b EXCEPT !.child = [i \in Items |-> IF i \in is THEN Append(@[i], outcome[i]) ELSE @[i]],
                 !.open = [t \in Turns |-> @[t] \ is],
                 !.counts = [t \in Turns |-> [c \in Counters |-> @[t][c] + Gain(t, c)]]]

FinalizeChild(b, i, o) == FinalizeChildren(b, [j \in {i} |-> o])

\* The outcome a turn derives from the counters of its children.
Derive(counts) ==
    LET nonzero == {c \in Counters : counts[c] > 0}
    IN CASE Cardinality(nonzero) = 1 -> CHOOSE c \in nonzero : TRUE
         [] Cardinality(nonzero) > 1 -> "mixed"
         [] OTHER -> "failed"

\* The sweep of the children still open when the turn is finalized.
Sweep(b, t, o) ==
    FinalizeChildren(b, [i \in b.open[t] |-> IF o = "cancelled" THEN "cancelled" ELSE "failed"])

\* Slip: the counters are read before the sweep.
FinalizeTurnEarly(b, t, o) ==
    IF TurnFinalized(b, t) THEN b
    ELSE LET outcome == IF o = "derive" THEN Derive(b.counts[t]) ELSE o
         IN [Sweep(b, t, o) EXCEPT !.turn[t] = Append(@, [outcome |-> outcome, counts |-> b.counts[t]])]

\* AppTurnRecorder.finalize; the outcome "derive" stands for outcome=None.
FinalizeTurn(b, t, o) ==
    IF TurnFinalized(b, t) THEN b
    ELSE LET s == Sweep(b, t, o)
             outcome == IF o = "derive" THEN Derive(s.counts[t]) ELSE o
         IN [s EXCEPT !.turn[t] = Append(@, [outcome |-> outcome, counts |-> s.counts[t]])]

----------------------------------------------------------------------------
(* The turn handlers.                                                      *)

Goto(t, where) == pc' = [pc EXCEPT ![t] = where]
\* The handler returns or raises: the turn is over for the recorders.
Ends(t, b) == Goto(t, "over") /\ book' = b

\* _handle_transcript_impl takes a transcript and creates the turn's recorder.
Accept(t) ==
    /\ pc[t] = "new"
    /\ Goto(t, "routing")
    /\ UNCHANGED <<answer, book, label, task, kind, stopping, late, host>>

\* The turn is answered without delegation: directly, by a control or by a
\* safe text after a failure.  The record follows the await of the speech.
Answer(t, o) ==
    /\ pc[t] = "routing"
    /\ Goto(t, "answering")
    /\ answer' = [answer EXCEPT ![t] = o]
    /\ UNCHANGED <<book, label, task, kind, stopping, late, host>>

\* A turn that has nothing to say is finalized at once.
AnswerNothing(t) ==
    /\ pc[t] = "routing"
    /\ Ends(t, FinalizeTurn(book, t, "failed"))
    /\ UNCHANGED <<answer, label, task, kind, stopping, late, host>>

Answered(t) ==
    /\ pc[t] = "answering"
    /\ Ends(t, FinalizeTurn(book, t, answer[t]))
    /\ UNCHANGED <<answer, label, task, kind, stopping, late, host>>

\* _begin_delegation finds no worker, or a worker that cannot search.
Missing(t) ==
    /\ pc[t] = "routing"
    /\ LET b == NewChildren(book, t, {Sole(t)})
       IN Ends(t, FinalizeTurn(FinalizeChild(b, Sole(t), "missing"), t, "failed"))
    /\ UNCHANGED <<answer, label, task, kind, stopping, late, host>>

\* A single-intent delegation whose search task is started, or refused for
\* want of capacity.
Delegate(t, started) ==
    /\ pc[t] = "routing"
    /\ book' = NewChildren(book, t, {Sole(t)})
    /\ task' = [task EXCEPT ![Sole(t)] = IF started THEN "running" ELSE "refused"]
    /\ label' = [label EXCEPT ![Sole(t)] = IF started THEN "none" ELSE "rejected"]
    /\ Goto(t, IF started THEN "searching" ELSE "speaking")
    /\ UNCHANGED <<answer, kind, stopping, late, host>>

\* The search ends within the foreground wait; its outcome is recorded after
\* the result has been committed and spoken.
Searched(t, o) ==
    /\ pc[t] = "searching" /\ task[Sole(t)] = "done"
    /\ \/ kind[Sole(t)] = "completed" /\ o \in {"completed", "declined"}
       \/ kind[Sole(t)] = "failed" /\ o \in {"clarify", "declined", "failed"}
    /\ label' = [label EXCEPT ![Sole(t)] = o]
    /\ Goto(t, "speaking")
    /\ UNCHANGED <<answer, book, task, kind, stopping, late, host>>

\* RecorderFactory.register_if_open.
Register(is) == registry \cup {i \in is : background[i] = <<>>}

\* _search_with_timeout: the wait is over and the coordinator keeps the task.
\* A client that understands work status hears nothing more of this turn.
Retained(t, capable) ==
    /\ pc[t] = "searching" /\ task[Sole(t)] = "running"
    /\ registry' = Register({Sole(t)})
    /\ task' = [task EXCEPT ![Sole(t)] = "retained"]
    /\ label' = [label EXCEPT ![Sole(t)] = "retained"]
    /\ IF capable
       THEN Ends(t, FinalizeTurn(FinalizeChild(book, Sole(t), "retained"), t, "derive"))
       ELSE Goto(t, "speaking") /\ UNCHANGED book
    /\ UNCHANGED <<answer, kind, stopping, claim, background, calls, cancelled, host>>

\* The coordinator refuses to keep the task: the recorder is popped unread.
RetentionRejected(t) ==
    /\ pc[t] = "searching" /\ task[Sole(t)] = "running"
    /\ task' = [task EXCEPT ![Sole(t)] = "dropped"]
    /\ label' = [label EXCEPT ![Sole(t)] = "rejected"]
    /\ Goto(t, "speaking")
    /\ UNCHANGED <<answer, book, kind, stopping, late, host>>

\* A multi-intent or pending turn: some items are settled while they are
\* decided, the others are submitted to the coordinator, which refuses some.
Submit(t, settled, refused) ==
    /\ pc[t] = "routing"
    /\ \E is \in SUBSET KidsOf(t) :
         /\ DOMAIN settled \subseteq is /\ refused \subseteq is \ DOMAIN settled
         /\ is # {}
         /\ book' = FinalizeChildren(NewChildren(book, t, is), settled)
         /\ task' = [i \in Items |-> IF i \in refused THEN "refused"
                                     ELSE IF i \in is \ DOMAIN settled THEN "running"
                                     ELSE task[i]]
    /\ Goto(t, "submitted")
    /\ UNCHANGED <<answer, label, kind, stopping, late, host>>

\* What a submitted item is recorded as when submit returns.  A completed
\* item may have asked back, declined, or echoed an id that is not its own.
Fate(i, kept) ==
    CASE task[i] = "done" /\ kind[i] = "completed" -> {"completed", "clarify", "declined", "failed"}
      [] task[i] = "done" /\ kind[i] # "completed" -> {kind[i]}
      [] task[i] = "running" /\ i \in kept -> {"retained"}
      [] OTHER -> {"rejected"}

\* The fan-in after submit: no await separates the coordinator's retention
\* from the registration of the recorders.  With nothing to speak the turn is
\* finalized at once.
Submitted(t, silent) ==
    LET mine == {i \in KidsOf(t) : task[i] \in {"running", "done", "refused"}}
    IN /\ pc[t] = "submitted"
       /\ \E kept \in SUBSET {i \in mine : task[i] = "running"} :
          \E fate \in [mine -> Outcomes] :
            /\ \A i \in mine : fate[i] \in Fate(i, kept)
            /\ silent => mine = kept /\ \A i \in KidsOf(t) : ~ChildFinalized(book, i)
            /\ registry' = Register(kept)
            /\ task' = [i \in Items |-> IF i \in kept THEN "retained"
                                        ELSE IF i \in mine /\ task[i] = "running" THEN "dropped"
                                        ELSE task[i]]
            /\ LET b == FinalizeChildren(book, fate)
               IN IF silent THEN Ends(t, FinalizeTurn(b, t, "derive"))
                            ELSE Goto(t, "speaking") /\ book' = b
       /\ UNCHANGED <<answer, label, kind, stopping, claim, background, calls, cancelled, host>>

\* The epilogue after the results have been committed and spoken.
Spoken(t) ==
    /\ pc[t] = "speaking"
    /\ LET b == IF label[Sole(t)] = "none" THEN book
                ELSE FinalizeChild(book, Sole(t), label[Sole(t)])
       IN Ends(t, FinalizeTurn(b, t, "derive"))
    /\ UNCHANGED <<answer, label, task, kind, stopping, late, host>>

\* _finalize_turn_exception after a commit or speech that raises.
Raises(t) ==
    /\ pc[t] \in {"answering", "speaking"}
    /\ Ends(t, FinalizeTurn(book, t, "failed"))
    /\ UNCHANGED <<answer, label, task, kind, stopping, late, host>>

\* The turn is cancelled at one of its awaits, by the user, a lost connection
\* or the shutdown, or awaits a search task that was cancelled.  The
\* foreground tasks it waits for are cancelled with it.
TurnCancelled(t) ==
    /\ pc[t] \notin {"new", "over"}
    /\ Ends(t, FinalizeTurn(book, t, "cancelled"))
    /\ stopping' = stopping \cup {i \in KidsOf(t) : task[i] = "running"}
    /\ UNCHANGED <<answer, label, task, kind, late, host>>

----------------------------------------------------------------------------
(* The worker tasks and their late completion.                             *)

\* The user cancels a work item: the host marks its id and cancels its task.
CancelItem(i) ==
    /\ task[i] \in {"running", "retained"} \/ i \in calls
    /\ host = "open"
    /\ cancelled' = cancelled \cup {i}
    /\ stopping' = stopping \cup {i}
    /\ UNCHANGED <<handler, book, task, kind, claim, registry, background, calls, host>>

\* RetainedRecorder.claim from the on_late_terminal hook.
Claims(i, k) == IF background[i] = <<>> /\ claim[i] = "none" THEN k ELSE claim[i]

\* The shutdown guard of the coordinator's completion callback.
Delivers == host \in {"open", "closing"}

\* A task ends.  For a retained one the done-callback claims the kind first
\* and then, unless the coordinator is shut down, starts the late callback.
TaskEnds(i, k) ==
    /\ task[i] \in {"running", "retained", "dropped"}
    /\ k = "cancelled" => i \in stopping \/ task[i] = "dropped"
    /\ task' = [task EXCEPT ![i] = "done"]
    /\ kind' = [kind EXCEPT ![i] = k]
    /\ claim' = [claim EXCEPT ![i] = IF task[i] = "retained" THEN Claims(i, k) ELSE @]
    /\ calls' = IF task[i] = "retained" /\ Delivers THEN calls \cup {i} ELSE calls
    /\ UNCHANGED <<handler, book, stopping, registry, background, cancelled, host>>

\* The work and commit outcomes of commit_late_result_once, by the kind of
\* the late result, the verdict of its fences and the cancellation mark.
LateOutcome(k, verdict, marked) ==
    CASE k = "cancelled" -> [work |-> k, commit |-> "suppressed_cancelled"]
      [] k = "failed" -> [work |-> k, commit |-> "not_applicable"]
      [] k = "completed" /\ verdict = "invalid" ->
           IF marked THEN [work |-> "cancelled", commit |-> "suppressed_cancelled"]
           ELSE [work |-> "invalid_result", commit |-> "not_applicable"]
      [] OTHER -> [work |-> IF marked THEN "cancelled" ELSE "completed",
                   commit |-> CASE verdict = "stale" -> "suppressed_stale"
                                [] verdict = "duplicate" -> "suppressed_duplicate"
                                [] verdict = "raises" -> "failed"
                                [] OTHER -> "committed"]

Verdicts == {"invalid", "stale", "duplicate", "raises", "valid"}

\* RecorderFactory.pop.
Popped(i) == registry \ {i}

\* The callback task runs commit_late_result_once, which never suspends.
LateCallback(i, verdict) ==
    /\ i \in calls
    /\ calls' = calls \ {i}
    /\ registry' = Popped(i)
    /\ background' = IF i \in registry
                     THEN [background EXCEPT ![i] =
                               Append(@, LateOutcome(kind[i], verdict, i \in cancelled))]
                     ELSE background
    /\ cancelled' = IF kind[i] = "completed" THEN cancelled \ {i} ELSE cancelled
    /\ UNCHANGED <<handler, book, task, kind, stopping, claim, host>>

----------------------------------------------------------------------------
(* SessionHost.shutdown.                                                   *)

\* Work tasks the ledger knows: those of single-intent delegations.
InLedger(i) == label[i] # "none" \/ pc[i[1]] = "searching"

\* Every tracked turn task and work task is cancelled ...
HostCloses ==
    /\ host = "open"
    /\ host' = "closing"
    /\ stopping' = stopping \cup {i \in Items : task[i] \in {"running", "retained"} /\ InLedger(i)}
    /\ UNCHANGED <<handler, book, task, kind, late>>

\* ... and awaited; a callback that its end starts runs before the host does.
\* Then the coordinator is shut down and cancels what it still owns.
HostDrains ==
    /\ host = "closing"
    /\ \A t \in Turns : pc[t] \in {"new", "over"}
    /\ \A i \in Items : InLedger(i) => task[i] # "retained" /\ i \notin calls
    /\ host' = "draining"
    /\ calls' = {}
    /\ stopping' = stopping \cup {i \in Items : task[i] \in {"running", "retained", "dropped"}}
    /\ UNCHANGED <<handler, book, task, kind, claim, registry, background, cancelled>>

\* RetainedRecorder.finalize with nothing given: the defaults.
SweptOutcome(i) ==
    [work |-> IF claim[i] = "none" THEN "cancelled" ELSE claim[i],
     commit |-> "suppressed_shutdown"]

\* The drain or its grace ends: finalize_all sweeps the registry.
HostDown ==
    /\ host = "draining"
    /\ host' = "down"
    /\ background' = [i \in Items |-> IF i \in registry THEN Append(background[i], SweptOutcome(i))
                                                        ELSE background[i]]
    /\ registry' = {}
    /\ UNCHANGED <<handler, book, task, kind, stopping, claim, calls, cancelled>>

----------------------------------------------------------------------------
Init ==
    /\ pc = [t \in Turns |-> "new"]
    /\ answer = [t \in Turns |-> "none"]
    /\ book = [open |-> [t \in Turns |-> {}],
               counts |-> [t \in Turns |-> [c \in Counters |-> 0]],
               turn |-> [t \in Turns |-> <<>>],
               child |-> [i \in Items |-> <<>>]]
    /\ label = [i \in Items |-> "none"]
    /\ task = [i \in Items |-> "none"]
    /\ kind = [i \in Items |-> "none"]
    /\ stopping = {} /\ registry = {} /\ calls = {} /\ cancelled = {}
    /\ claim = [i \in Items |-> "none"]
    /\ background = [i \in Items |-> <<>>]
    /\ host = "open"

\* Outcomes an item of a fan-out can be settled with while it is decided.
Settled == {"direct", "clarify", "missing", "failed"}

\* A cancelled handler resumes with the cancellation: once the host is closing
\* no turn takes another step of its own.
TurnStep(t) ==
    /\ host = "open"
    /\ \/ Accept(t) \/ AnswerNothing(t) \/ Answered(t) \/ Missing(t)
       \/ RetentionRejected(t)
       \/ \E o \in {"direct", "clarify", "control", "failed"} : Answer(t, o)
       \/ \E b \in BOOLEAN : Delegate(t, b) \/ Retained(t, b) \/ Submitted(t, b)
       \/ \E o \in Outcomes : Searched(t, o)
       \/ \E is \in SUBSET KidsOf(t) : \E settled \in [is -> Settled] :
            \E refused \in SUBSET (KidsOf(t) \ is) : Submit(t, settled, refused)
       \/ Spoken(t) \/ Raises(t)

ItemStep(i) ==
    \/ CancelItem(i)
    \/ \E k \in Kinds : TaskEnds(i, k)
    \/ \E v \in Verdicts : LateCallback(i, v)

Next ==
    \/ \E t \in Turns : TurnStep(t) \/ TurnCancelled(t)
    \/ \E i \in Items : ItemStep(i)
    \/ HostCloses \/ HostDrains \/ HostDown

Spec == Init /\ [][Next]_vars

----------------------------------------------------------------------------
(* Properties.                                                             *)

Over(t) == pc[t] = "over"
Records(s) == {s[n] : n \in DOMAIN s}

TypeOK ==
    /\ pc \in [Turns -> {"new", "routing", "answering", "searching", "submitted", "speaking", "over"}]
    /\ answer \in [Turns -> Outcomes \cup {"none", "control"}]
    /\ label \in [Items -> Outcomes \cup {"none"}]
    /\ task \in [Items -> {"none", "running", "refused", "retained", "dropped", "done"}]
    /\ kind \in [Items -> Kinds \cup {"none"}]
    /\ claim \in [Items -> Kinds \cup {"none"}]
    /\ \A t \in Turns : book.open[t] \subseteq KidsOf(t)
    /\ stopping \subseteq Items /\ registry \subseteq Items
    /\ calls \subseteq Items /\ cancelled \subseteq Items
    /\ host \in {"open", "closing", "draining", "down"}

\* A turn that has left its handler, however it left it, has exactly one
\* app_turn_foreground record, and every child created under it exactly one
\* work_item_foreground record (AppTurnRecorder's guarantee).
\* The counters of the turn record add up to the child records of that turn,
\* counter by counter: nothing is attributed after the turn's record.
TurnAddsUp ==
    /\ \A t \in Turns : Len(book.turn[t]) = (IF Over(t) THEN 1 ELSE 0)
    /\ \A i \in Items : Len(book.child[i]) <= 1
    /\ \A t \in Turns : Over(t) => book.open[t] = {}
    /\ \A t \in Turns : \A r \in Records(book.turn[t]) : \A c \in Counters :
         r.counts[c] = Cardinality({i \in KidsOf(t) :
                                      \E o \in Records(book.child[i]) : CounterFor(o) = c})

-----------------------------------------------------------------------------
(* What a comment, a document or a test says, and the code does not do. *)

\* "Pure shutdown-triggered cancellation never reaches here: the coordinator's
\* shutdown guard suppresses this callback entirely" (commit_late_result_once):
\* a task that only the shutdown cancelled is never recorded as a live
\* "suppressed_cancelled".
ShutdownIsNotLiveCancel ==
    \A i \in Items : \A r \in Records(background[i]) :
        r.commit = "suppressed_cancelled" /\ kind[i] = "cancelled" => i \in cancelled

\* "A single-intent direct/unsupported/clarify response resolved by the router
\* attributes its own category counter" (README.md): the record of a turn
\* answered directly counts that category.
CategoryCounted ==
    \A t \in Turns : \A r \in Records(book.turn[t]) :
        r.outcome \in {"direct", "clarify"} => r.counts[r.outcome] > 0
============================================================================
