# The pipecat sub-agents lab: specifications and proofs

The server (`server/`) holds one voice session. What the user says is transcribed,
collected into turns, routed to workers, and the results are committed, published to
a browser page (`web/src/`) and spoken over a connection that may be interrupted, torn
down or replaced at any moment. Almost everything runs on one asyncio event loop: code
between two `await`s is atomic, and the difficulty is in what happens between them. The
specifications take one step for each such stretch of code.

## Inventory

| part | source | model |
| --- | --- | --- |
| speech lifecycle coordinator and its frame processors | `speech_lifecycle.py` | `SpeechLifecycle`, `SpeechSlot` |
| speech scheduler, public speech records | `speech_scheduler.py`, `session_state.py` (`speech_progress`) | `SpeechScheduler` |
| turn-ack ledger | `turn_ack_ledger.py`, settling in `turn_epilogue.py` | `TurnAckLedger` |
| local speech synthesis | `services/tts.py`, `services/ws_clients.py` | `LocalSynthesis` |
| collection of transcripts into turns | `turns.py` | `FinalTurnTranscript` |
| turn handling, voice cancellation, late commit | `pipeline.py`, `turn_epilogue.py`, `work_task_ledger.py` | `TurnHandling` |
| clarifying questions and their arbitration | `worker_projection.py`, `pipeline.py`, `work_item_coordinator.py` | `PendingDialogue` |
| work item coordinator, task retention | `work_item_coordinator.py`, `task_retention.py` | `WorkItemCoordinator`, `WorkDelivery` |
| a worker's queue | `work_item_coordinator.py` (`one`), `workers/base.py` | `WorkerMailbox` |
| work status | `session_state.py`, `work_status_publisher.py` | `WorkStatusLedger` |
| the browser's copy of it | `web/src/state.js` | `WorkStatusView` |
| session log, observer, snapshot barrier, reducer | `session_state.py`, `observers.py`, `app.py`, `rtvi_messages.py`, `web/src/state.js` | `SnapshotBarrier` |
| arbiter, handshake gate, attachment, retirement, host shutdown | `connection_arbiter.py`, `handshake_gate.py`, `app.py`, `connection_pipeline.py`, `runner_supervisor.py`, `pipeline.py` | `ConnectionHost` |
| the page's connect and disconnect | `web/src/app.js` | `BrowserConnection` |
| turn, work-item and background records | `perf_metrics.py`, `recorder_factory.py` | `TurnRecorders` |
| model comparison | `scripts/eval_model_comparison.py` | `EvalMatrix` |

How the parts interact. `FinalTurnTranscript` hands a turn to the handlers of
`TurnHandling`. They ask `PendingDialogue` whether the turn answers an open question,
delegate work items to `WorkItemCoordinator`, whose tasks queue up in a
`WorkerMailbox`, and commit the results, in the foreground or late. They report statuses to
`WorkStatusLedger` and outcomes to `TurnRecorders`, acknowledge through
`TurnAckLedger`, and enqueue speech in `SpeechScheduler`. That asks
`SpeechLifecycle` for the connection's single transport slot and speaks through
`LocalSynthesis`. The coordinator follows the utterance through TTS and transport
frames and its own deadlines and calls the host back when the slot is free. Everything
a browser is to see is an event of the session log, which `SnapshotBarrier` delivers to
the page; `WorkStatusView` is what the page makes of the statuses. `ConnectionHost` and
`BrowserConnection` are the two ends of connecting.

Where one module needs another it either extends it or uses what it promises.
`TurnAckLedger` extends `SpeechScheduler`, and `WorkStatusView` extends
`WorkStatusLedger`: these are compositions. `SpeechScheduler` uses the slot as
`SpeechSlot` promises it, which `SpeechLifecycle` is shown to implement. `TurnHandling`
uses the coordinator as `WorkDelivery` promises it, which `WorkItemCoordinator` is
shown to implement.

## Modules

### Speech

**`SpeechSlot`** is what the lifecycle coordinator promises: one slot, held by at most one
generation; each generation leaves it once, with one disposition; an interruption
recorded while it holds the slot is the disposition it leaves with; a closed
connection admits nothing.

**`SpeechLifecycle`.** State: the generation table, the slot, bound contexts and context
tombstones, the deadline armed for each generation, the coroutines scheduled or
suspended, and the token each frame processor has captured. Actions: the scheduler's calls
(`TryAdmit`, `RecordInterruption`, `ReleaseGeneration`); each frame at each processor;
`TimerFires`, which only schedules a coroutine, as `_arm` does, so cancelling the timer
afterwards no longer helps; one action for each segment of a coroutine; and
`ConnectionClosed`, which cancels the coordinator's coroutines and not the caller's. A
token stands for a generation, its utterance id and its TTS context id, which are in
bijection. Deadlines are untimed. Frames may be lost, repeated or late.

**`SpeechScheduler`.** State: the per-key queues as one sequence in key order, the lease,
paused items, where each `start_next` call is suspended, scheduled queue advances, the
public record of each item, and the host's view of the connection. `StartNext` is the
body of `start_next` up to its suspension; every action that calls it includes it. The
ack ledger is an arbitrary caller. Not in the module because no caller in `server/` reaches
them: `interrupt()` without `full_stop` or `reconnect`, and `delivery_completed` once a
coordinator is present.

**`TurnAckLedger`** replaces the arbitrary ack caller by the ledger: the latch, the
admission generations with eviction, and the chains of attempts. A chain is a record of
its turn, generation, attempt number and place: about to call `start_next`, suspended
in `speak`, or asleep. The turn handlers are reduced to when they emit and when they settle.

**`LocalSynthesis`.** The `run_tts` generator of each utterance, its wire client and socket,
interruption at every suspension, and the finalizer of an abandoned generator, which asyncio
runs at any later time. An interruption may also find the generator in its own `finally`,
closing a broken client: it then ends there and reports nothing (`AbortCut`), which
`OneTerminal` states as its one exception.

### Turns and work

**`FinalTurnTranscript`.** Fragments, the grace after a stop, the commit, the dispatch slots,
speech that resumes, the end of the pipeline and `cleanup`. Frames arrive in two
lanes, as in Pipecat.

**`TurnHandling`.** One task per turn, one step per segment between awaits, for single,
continued and compound turns; the shared epilogues; the host's two registries of work;
voice cancellation of one item or of everything; and the late-result callback, whose result
may be invalid, of another epoch or a duplicate, or fail to commit (`LateResults`). Speaking
may raise; the commit of a foreground result is taken to succeed.

**`PendingDialogue`.** Questions raised by workers, the bounded table of candidates, the
commit that makes one pending, its expiry, and arbitration, which runs in a thread: its
steps interleave with the event loop's.

**`WorkDelivery`** and **`WorkItemCoordinator`.** The promise: an item is answered in the
foreground once, or goes on in the background and its late result is delivered once.
The coordinator: bounded start, foreground wait, the retention of what is not done by
then, done-callbacks that run some time after a task has ended, cancellation and shutdown.

**`WorkerMailbox`.** The two queues in front of a worker, over an explicit model of asyncio's
ready queue: the order of callbacks is the code's, and what comes from outside (turns,
cancels, provider answers) may come between any two.

**`TurnRecorders`.** The recorders of a turn, its work items and what it retained, with
the claims and sweeps that decide who finalizes what.

### Status, log and connection

**`WorkStatusLedger`.** One record for the ledger, since one report may touch all of it:
children, parent aggregates, insertion order, time stamps, sequences, tombstones and the
keys restored after a restart (`from_snapshot`, which today only tests call).
`WorkStatusView` adds the browser's entries in insertion order, its tombstones, and a
channel that reconnects and loses increments. A loss is silent: the browser asks for a
snapshot when the next increment shows it a gap.

**`SnapshotBarrier`.** The log, the observer (pause, buffer, replay), the barrier frame with
its acknowledgement and timeout, the request handler with its one retry, the data
channel with lost increments, and the reducer's sequence checks.

**`ConnectionHost`.** Tokens and their eviction, epochs, promotion, `connect` and the
attachment of a pipeline with each point where it may fail, retirement, several concurrent
calls of `ConnectionPipeline.shutdown`, and the host's shutdown with its grace.

**`BrowserConnection`.** `connect` with its single in-flight promise, the generation guards
of the callbacks, `disconnect`, drops, tracks, and the teardown of clients. The RTVI client
is external. Its `disconnect()` may resolve, with `onDisconnected` or, before it was
connected, without; or it rejects, which `teardownClient` logs, and the client stays live.

### Evaluation

**`EvalMatrix`.** A cell of the model comparison: setup, the turns with every answer the
scoring tells apart, cleanup steps that may raise, the repetitions, the vote on each field
and the verdict. The vote is checked against a reference: the majority of clean
repetitions.

## Model checking

An `MC` module gives the constants their values. Where it has several components, the
variable `part` says which of them a behaviour is about; the others rest in their
initial state. The components of one `MC` module share no variable (they are extended, or
instantiated with variables of their own), so a property of one does not depend on steps of the
others, and checking them side by side is checking each. `MCStatus`, `MCQueueLiveness` and
`MCEvalMatrix` use `part` in the same way for two instances of one component.

| run | instance | shows |
| --- | --- | --- |
| `slot` | 2 generations, 2 coroutines at once, 1 tombstone | `SlotSafe`: slot, table, deadlines, tombstones and reports describe the same generation. `OutputBarrier`: submitted audio keeps the slot. `TombstoneFence`: an interrupted generation accepts nothing. `ImplementsSlot`: refinement of `SpeechSlot` |
| `slot_liveness` | 1 generation | `DeadlinesFire`, `InterruptionResolves`: every deadline leads out of the state it guards, though no frame ever arrives |
| `lost_ack` | as above | **violated**: `CleanupResolves` (finding 1) |
| `speech` | two work items, one with a replay, and an ack; or three utterances of the local provider | `RecordsAgree`: lease, slot, queue and public records. `SpeechOnce`: no result is lined up twice. `AcksAccountedFor`, `DiscardedForGood`. `OwnAudioOnly`: an utterance reads its own audio over its own client. `OneTerminal`: it is reported over at most once, and not at all only if it is cut short in its cleanup |
| `queue_liveness` | three work items; or two acks of one turn | `QueueDrains`: a queued result is spoken though submissions fail. `AckBounded`: an ack leaves within its chain's attempts though the slot is never freed |
| `acks` | up to three acks of one turn, a second turn, another utterance | `NoAckAfterResult`. `QueuedAckHasChain`: some chain looks after a queued ack, which is its turn's only one while the generation map knows the turn |
| `double_ack` | a result and an ack, 4 attempts | **violated**: `AbandonedNeverSpoken` (finding 2) |
| `work` | a compound and an ordinary turn in a coordinator for two background tasks; or three items of one worker; or three segments and four stops over one dispatch slot | `WithinCapacity`, `KeepsDelivery` (refinement of `WorkDelivery`), `LateDeliveryHappens`; `SerialUnlessDropped`; `NotPoisoned`: an item in the mailbox runs, whatever became of those before and behind it; `RoutedOnceInOrder`, `StopIsServed` |
| `status` | a turn of two items beside one of one, with a restart; or two turns and a browser; room for one key | `TerminalIsFinal`, `SettledTurnIsFinal`, `ReadyMeansDone`: what browsers were told stays true, and no turn is stranded. `Remembered`, `WatchedCatchesUp`: nothing is resurrected, and the browser catches up, after a loss with the snapshot that the next increment makes it ask for |
| `turns` | a turn of up to two items beside one that may cancel it; or three questions and two turns; or the records of a turn with two children | `ReadyMeansCommitted`, `CancelledIsSilent`, `EveryChildSettles`; `CapturesOnlyOpen`; `TurnAddsUp` |
| `connection` | two handshakes and a fault; or three events, two connections, a lost increment and a failing barrier; or a page through six generations | `OneCurrent`, `NoOrphanWorker`, `RetiredIsClosed`; `PageHoldsLog`; `ShownIsCurrent`: the page shows and plays the client it listens to |
| `eval` | two repetitions with every answer; or three with the answers on which votes disagree | `BilledIsNotSkipped`; `PassMeansCleanMajority`, in both directions |

Each module also has its type invariant. The runs spend their time on the properties above;
what the proofs use of the type invariants they prove, and the others hold on the
instances of the runs (that of `EvalMatrix` with each part's own number of repetitions).

Bounds, and why they are enough:

* Two generations: a late frame, deadline or coroutine of the first meets the second in
  the slot, and evicts its tombstone. `MaxTasks` lets two coroutines race; in the
  liveness runs it is above the number that can exist.
* One key with two utterances (pause, replay, cancel), another to compete with, an ack.
  Three keys in `queue_liveness`, so that an advance that probes one other key has one
  it does not probe.
* Every enqueued ack, a requeued one included, is an item: the item set bounds emissions
  and chains. Two attempts have a first, a retry and a last; `double_ack` uses the code's
  own limit, four.
* `VIEW` in `acks` leaves out two histories that no step reads and the value of the claim
  counter, of which only matters that it exceeds every number in use. The number of
  states TLC reports therefore varies a little from one run to the next.
  `CONSTRAINT Situations` keeps to five situations, named in `MCTurnAckLedger`, of which each
  has one thing more than the others. What it leaves out the proofs cover.
* Three items for two places in the coordinator, three items for one worker: one runs, one
  waits and a third overtakes or follows a cancelled one.
* Three utterances: an abandoned one, its successor, and one after that.
* Room for one key where the code has a cap, a time to live of one tick, and one or
  two lost increments or failed barriers: every eviction, expiry and fault happens, beside one that
  has not happened yet. `MaxTombs` exceeds the number of keys the browser sees, so
  the exception for overflowing tombstones in `Remembered` is never used.
* Two handshakes offered the same epoch, and one fault, at any point of either.
* A connect uses up to three of the page's generations: six are two connects that each
  replace, fail or drop a connection, so that a client left live meets its successor.
* Symmetry only permutes model values that the specification treats alike, and only in
  runs without liveness properties.
* Deadlock is not checked: a connection that was closed, or whose finite items are used
  up, has nothing more to do.

Fairness, and why the code justifies it:

* Event loop: due timers and ready coroutines run, and the host's callbacks return or
  raise. No frame, and so no acknowledgement, is assumed to arrive.
* `QueueDrains`: `speak` returns or raises, and the slot's holder leaves. The last is
  not unconditional: it fails in finding 1, when a provider starts and never stops (no
  deadline covers synthesis), and when a teardown fails. `QueueDrains` is relative to it.
* `AckBounded`: chains run and an ack's `speak` ends. The slot need not be freed.
* `NotPoisoned`, `LateDeliveryHappens`: provider calls end at their timeout, tasks and
  their done-callbacks run. No cancel is assumed.
* `StopIsServed`: the frame lanes are read, the grace runs out, a dispatched turn ends.
* `RetiredIsClosed`: a cancelled worker ends, teardowns end, each shutdown call takes its
  steps, and worker registration returns or raises.

## Findings

1. `record_interruption` cancels whatever deadline is armed. If a cleanup is already
   waiting for its flush acknowledgement, the interruption deadline that replaces it
   leads to `_begin_cleanup`, which returns at once because cleanup is pending. A lost
   acknowledgement then leaves the slot occupied and no teardown requested, contrary
   to the docstring of `_begin_cleanup` (`speech_lifecycle.py:828`).
2. When the slot frees, `on_terminal` may admit a queued ack itself. The ack's own
   chain takes the resulting `None` for a busy slot, retries, and settles the turn as
   abandoned although the ack was spoken; `turn_ack_ledger.py:466` calls abandonment
   safe because "the abandoned ack was discarded, never spoken".

### Further divergences

The modules also state, under a heading of their own, what a comment, a document or a
test says and the code does not do. No run checks these predicates. Checked in the
place of its run's properties, on the run's own instance, each is violated; the one
exception is `NeverStranded`, which is temporal and is violated under `SnapshotBarrier`'s
own `Spec` with two events, one connection, one lost increment and one failing barrier.
In the table `pipeline.py`, `app.py`, `turns.py` and the like are under `server/`, and
`eval_model_comparison.py` is under `scripts/`.

| predicate | the code does | stated at |
| --- | --- | --- |
| `CancelSparesOthers` (`WorkerMailbox`) | `ContextWorker.submit` awaits the previous task unshielded (`workers/base.py:88`): cancelling an item that waits there cancels the one it waits for | "Cancel accepted computation for one work item" (`work_item_coordinator.py:911`) |
| `OneAtATime` (`WorkerMailbox`) | an item cancelled before its first step ends without waiting, and its successor waits only for it | "each worker executes one accepted turn at a time in acceptance order" (`docs/dev_plans/20260711-feature-websearch-subagent-electron.md:260`) |
| `AcceptanceOrder` (`WorkerMailbox`) | an ordinary turn's search does not pass the coordinator's tail and overtakes an item that does (`work_item_coordinator.py:1073`) | "in accepted-turn order through its mailbox" (same plan, line 107) |
| `CancelledTurnStopsItems` (`WorkItemCoordinator`) | a cancellation at the `sleep(0)` after the foreground wait leaves unfinished tasks running (`work_item_coordinator.py:1126`) | `test_cancelling_submission_does_not_launch_waiting_same_worker_item` |
| `RoutingWhileAnyRouting` (`WorkStatusLedger`) | a first child rejected before its sibling is delegated settles the parent for good (`session_state.py:512`) | "`routing` while any child is routing" (`shared/protocol.md:129`) |
| `SnapshotIsShown` (`WorkStatusView`) | a snapshot's live record inherits the previous entry's `_restoredAt` and may be pruned on arrival (`web/src/state.js:392`) | "The snapshot is authoritative for every key it carries" (`state.js:393`) |
| `NeverStranded` (`SnapshotBarrier`) | a page that asked once after a gap, and whose barrier fails, waits for ever (`app.py:684`) | "one extra attempt is enough to stop silently stranding a client" (`app.py:669`) |
| `AnswersWhatWasHeard` (`PendingDialogue`) | a question committed between a transcript's acceptance and its arbitration captures it (`pipeline.py:1327`) | "with no unrelated topic being captured accidentally" (same plan, line 457) |
| `OneQueuedAckPerTurn` (`TurnAckLedger`) | once an eviction has removed a turn whose first chain is still retrying, that chain reads itself as live again, and its failed `speak` requeues a second ack (`turn_ack_ledger.py:426`) | "Eviction cannot resurrect the generation collision this dict exists to prevent" (`turn_ack_ledger.py:84`) |
| `RetainedKeepsOwnership` (`TurnHandling`) | the outer handler's `finally` releases what the inner one kept for retained children (`pipeline.py:1727`) | "They keep their registry entry (and with it the turn's ack ownership) past the handler's return" (`pipeline.py:2010`) |
| `NoNoticeAfterResult` (`TurnHandling`) | a compound turn may queue a child's notice after the child's late result has committed (`pipeline.py:2900`) | a queued "taking longer" notice "goes stale once the real result has committed" (`pipeline.py:2905`) |
| `KnownUntilSettled` (`TurnHandling`) | ids of a compound turn cancelled before `submit` stay registered (`pipeline.py:1124`) | "every other path that discards these ids fires exactly when that late result (or an explicit cancel) finally does arrive" (`pipeline.py:2474`) |
| `ReachableUntilCommitted` (`TurnHandling`) | committing a retained item's notice retires its id before its late commit (`pipeline.py:3039`) | "lets a whole-connection cancel reach a work item whose task already completed" (`work_task_ledger.py:46`) |
| `FailedIsFenced` (`ConnectionHost`) | `connect` publishes the connection and then registers workers; if that raises, nobody aborts it (`pipeline.py:748`) | "Fence a promoted connection whose transport setup did not complete." (`pipeline.py:1035`) |
| `FailedIsClosed` (`ConnectionHost`) | a handshake refused as stale leaves its peer connection open (`app.py:387`) | "Best-effort close of the raw peer connection when setup aborts." (`app.py:359`) |
| `TornIsReleased` (`BrowserConnection`) | `disconnect()` during `initDevices` marks the client torn down before it captures the microphone, and the second teardown is skipped (`web/src/app.js:155`) | "the WeakSet makes this safe even when disconnect() already tore this same client down" (`app.js:208`) |
| `SegmentsStayTogether` (`FinalTurnTranscript`) | a transcript later than the grace goes to the next turn (`turns.py:115`) | "combine them into one semantic user turn before routing" (`docs/architecture.md:160`) |
| `ShutdownIsNotLiveCancel` (`TurnRecorders`) | `shutdown` awaits the tracked tasks before the coordinator's guard is set, so late callbacks run (`pipeline.py:3217`) | "Pure shutdown-triggered cancellation never reaches here" (`pipeline.py:2762`) |
| `CategoryCounted` (`TurnRecorders`) | a directly answered turn counts no category (`pipeline.py:1489`) | "attributes its own category counter" (`README.md:547`) |
| `AggregateAgrees` (`EvalMatrix`) | a cell's status and its turns' statuses are voted over different voters (`eval_model_comparison.py:1473`) | "a self-contradictory artifact" (`eval_model_comparison.py:1174`) |

### What `ShownIsCurrent` leaves out

`connect()`'s catch block (`web/src/app.js:219`) tears its client down and clears
`connectionActive`, but neither retires the generation nor clears the audio element; it
relies on `onDisconnected` for both. If the client's own `disconnect()` rejects too, the
client is still live and still current: a late `onConnected` shows "connected" with no
client behind it, which the Disconnect button cannot undo, and its track plays on until the
page next cleans up. `ShownIsCurrent` excepts exactly these clients (`stranded`). No document
or test speaks of the case, so it is not listed as a divergence.

## Proofs

The modules `*Proofs` hold theorems that TLAPS checks, for every value of the
constants: any number of turns, items, connections or utterances, and any limits. Each
proof has the same shape: an inductive invariant, one lemma per action (or per group
of actions that change the same state), and a temporal step that combines them.

| module | theorems | assumptions |
| --- | --- | --- |
| `SpeechProofs` | `TypeCorrect`, `SlotHasSoleOccupant`, `TerminalReportedOnce`, `ClosedStaysEmpty`, `TombstonesBounded` and their conjunction `SlotIsSafe`; `OutputBarrierHolds`, `TombstoneFenceHolds`; `Refinement` of `SpeechSlot`; `OwnAudioOnlyAlways`, `OneTerminalAlways` | `NoneAssumption` (None is not a token), `LimitAssumption` (the tombstone limit is a natural number), `SynthesisAssumption` (a natural number) |
| `SpeechSchedulerProofs` | `RecordsAgreeAlways`, `SpeechOnceAlways`, `AcksAccountedForAlways`, `DiscardedForGoodAlways`; `NoAckAfterResultAlways`, `QueuedAckHasChainAlways`, `LedgerTypeOKAlways`; `SchedulerUnderLedger`: the scheduler's four invariants under the ledger | `SchedulerAssumption` (None is no item; results and acks never share a key), `LedgerLimits` (limits are at least one) |
| `WorkProofs` | `WithinCapacityAlways`; `ImplementsDelivery`: refinement of `WorkDelivery`; `RoutedOnceInOrderAlways` | `ItemsOfOneTurn` (no item is handed in by two turns), `CoordinatorAssumption` (limits are at least one), `WorkAssumption` (NoItem is no item, direct items are items; bounds are natural numbers, at least one slot and one character) |
| `MailboxProofs` | `SerialUnlessDroppedAlways` | `WorkAssumption` |
| `ConnectionProofs` | `OneCurrentAlways`, `NoOrphanWorkerAlways`, `NeverBackAlways` (an action property); `ShownIsCurrentAlways` | `ConnectionAssumption` (NoAttempt is no attempt; bounds are natural numbers, room for one token and at least one generation) |
| `BarrierProofs` | `PageHoldsLogAlways` | `BarrierAssumption` (bounds are natural numbers, at least one epoch) |
| `TurnHandlingProofs` | `ReadyMeansCommittedAlways`, `CancelledIsSilentAlways`, `EveryChildSettlesAlways`, `TurnTypeOKAlways` | `TurnAssumption` (delegating turns are turns; natural numbers, at least one item) |
| `TurnsProofs` | `CapturesOnlyOpenAlways` (an action property); `TurnAddsUpAlways` | `TurnsAssumption` (NoQuestion is no question; natural numbers, at least one candidate, epoch and tick; every recorded turn has at least one item) |

A theorem about a component that an `MC` module extends is stated of the component's own
specification. One about a component that it instantiates is stated of the `MC` module's
specification, with every constant free: the `MC` module only renames the component's
variables, and a step of another part leaves them alone.

The arguments. None of the properties is inductive alone.

* **Lifecycle.** `ReportedOnce`, for example, fails from a state where a scheduled
  `notify` coroutine exists for a generation that is live or already reported. `IInv`
  adds `OnlyUsed` (nothing exists of a token that was never admitted, so an admission
  starts clean) and `TasksAgree` (what a generation and the coroutines suspended for it
  know of each other). The lemmas rest on three shapes of step: reaping a
  generation, updating one, and changing only the coroutines. The action properties and
  the refinement step follow per action from `IInv`.
* **Scheduler.** `Sound` says where an item can be at all: the queue, the paused items
  and the lease hold different items, of which at most one per work item; a public record
  is open exactly for what they hold; and only an admitted item has a call under way. It is
  a predicate of values, not of variables, so that a handler can be taken apart into its
  moves. `LeaseAgrees` says that a lease is the slot's and `LaneAgrees` that a lane which
  lost its connection has been swept. `StartNext`, with which many actions end, is proved
  once, for whatever its caller hands it. Which item it takes is the one with the least
  index of its key; that there is one is proved from the well-foundedness of the naturals.
* **Ack ledger.** "Some chain looks after a queued ack" is not inductive: one chain may be
  all that two acks have. `LInv` states it as an injection (`Kept`): the queued acks of a
  turn map one to one into the chains that will come back to them. A chain that ends or is
  superseded must then be one that no ack needs, which the generation numbers guarantee
  while the map knows the turn. Scheduler steps only take acks out of the queue (`Calm`),
  and the injection restricts. The proof showed that an earlier form of
  `QueuedAckHasChain`, by which a queued ack is always its turn's only one, does not
  hold: see `OneQueuedAckPerTurn` above.
* **Synthesis.** `InTurn`: utterances before the current one are over, or abandoned and
  fenced. `ClientAgrees` and `OwedAgrees`: the service's client is the current utterance's
  and owes it nothing but its own audio. `Reported`: what an utterance has reported is
  determined by where its generator is and whether it was cut short in its cleanup.
* **Coordinator.** The owned tasks shrink and grow again (a turn whose retention is refused
  after a shutdown owns its task once more), so the bound is carried by `LiveWork`: the
  work whose task runs or whose callbacks have yet to run. The refinement needs
  `TurnsAgree`, what a turn was told of its items.
* **Transcript.** `RoutedOnceInOrder` is about one sequence cut in five: turns routed, turns
  waiting for a slot, the text of a completion, fragments. `TranscriptInv` keeps that
  sequence (`AllInLine`) and adds `OneCompletion`: of the completion tasks only the current
  one has a turn in hand or will take one. Without it a superseded completion could put its
  text behind its successor's. `CharsCounted` keeps the character limit from cutting a
  segment.
* **Mailbox.** The order of callbacks is what serialises a worker, so the invariant speaks
  of the ready queue: `CallsAgree`, a scheduled callback finds its item at the stage it was
  scheduled for, and no callback that moves an item is scheduled twice. `InLine`: each
  entry remembers the one before it. `InOrder`, unless an item was dropped: an operation
  that has started comes after operations that are all over. A cancellation passes down the
  chain of awaited tasks (`Reached`); where it ends is proved from the
  well-foundedness of the naturals.
* **Connections.** `EpochsRise`: only the current connection has the arbiter's epoch.
  `ShutdownAgrees`: what each of several concurrent shutdown calls has established by the
  stage it is in. `BeforePromotion`: an attempt that was not promoted has nothing to stop.
* **Page.** What a page may show follows from where the single in-flight `connect` is
  (`InFlight`), what its own client has done (`OwnClient`), and what a client that was
  replaced, or would not disconnect, can still do (`EveryClient`).
* **Snapshot barrier.** What the page will hold depends on everything in flight: the
  increments in the data channel, the delivery tasks behind them, the observer's buffer and
  a snapshot anywhere among them. `Streams` reads them as eras. A snapshot on its way
  starts an era at its sequence number; in each era the increments count on from
  there without a hole, and an increment's number is the place of its event among the events
  the connection may see, moved by one offset for the whole era. `Held` says the same of
  the page: it holds exactly the visible events whose number is at most its own. `Ordered`
  keeps the barrier frame and the snapshot behind it in their places.
* **Question.** `OpenIsFree`: the pending question was put to the user and no turn
  continues it yet. The arbitration that ran in a thread compares it again.
* **Recorders.** `BookCounts`: a turn's counters count its children's records at every
  moment, not only at the end. `BookLatched`: a recorder emits once. `BookClosed`: a
  turn's record took counters that no longer change, because no child is open. A sum over
  the children is proved child by child, with the cardinality of the set of those counted.
* **Turns.** `TInv` is a conjunction over the turns. For one turn it says what is
  registered, retained or held back at each place of its task (`Fresh`, `Registered`,
  `NothingHeld`, `Progress`), and that a cancelled item of a turn on its way to its work
  has been reached (`CancelReaches`: the turn's task or the item's was asked to stop).
  Without `CancelReaches` a child could be retained, published as cancelled and still be
  delivered. In the commit loop every child outlives the turn, is settled, or has a status
  held back for a result still to commit (`WillSettle`). `ItemOK` also
  says that an item whose answer was collected or committed has answered and no longer
  outlives its turn, so no late commit finds its result already there. The loop is proved once
  (`AdvanceKeeps`), over a session that is not yet the state's; a step leaves every other
  turn alone or only cancels it (`ApartKept`).

Only model-checked:

* all liveness: fairness and `ENABLED` are outside the prover;
* `EvalMatrix`, whose vote folds over the repetitions: what a fold computes for every
  input needs an induction over data that the installed provers cannot do;
* `WorkStatusLedger` and `WorkStatusView`, for the same reason: expiry, eviction and the
  aggregate of a turn are folds and selections over the insertion order.

## Not modelled

* Routing, responding and web search (`router.py`, `main_responder.py`,
  `structured_outputs.py`, `workers/web_search.py`): prompts and validation around model
  calls, without state.
* Hosted speech services, STT and the service factory: thin adapters; their frames are the
  environment of `SpeechLifecycle` and `FinalTurnTranscript`.
* Speaker and microphone selection, rendering and diagnostics of the page.
* HTTP routes, WebRTC signalling, configuration, preflight, composition, smoke and
  benchmark scripts: input and output, or one straight line.
* Contents: transcripts, results, prompts and the JSON of envelopes are opaque values.
* Deadlines and durations, except where two clocks are compared (status retention, the
  expiry of a question).
* No deadline covers a provider that starts and neither stops nor fails. The code states
  no bound for it, so there is nothing to hold it to; `DeadlinesFire` leaves it out.
* In parts modelled only partly: a foreground commit that raises (only speaking does);
  `clear_all` of the ack ledger; an `enableMic(false)` of the page that throws; the
  projection of worker states; the registry's get-or-create, which runs under one lock; the start of the
  runner; interrupted evaluation runs.

## Plan

1. `WorkStatusLedger` with its folds as recursive functions, and a proof of
   `TerminalIsFinal`.
2. A foreground commit that raises in `TurnHandling`.
