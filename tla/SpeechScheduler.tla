--------------------------- MODULE SpeechScheduler ---------------------------
(***************************************************************************)
(* The speech scheduler of one connection (server/speech_scheduler.py) over *)
(* the slot its coordinator promises (SpeechSlot), with the host callbacks  *)
(* that drive both (server/pipeline.py) and the public delivery records     *)
(* that browsers see (SessionState.speech_progress).                        *)
(*                                                                         *)
(* A step is the code between two suspension points of the event loop.     *)
(* start_next suspends in speak, and once more in provider_error when speak *)
(* raised; everything else a caller does before or after is in its step.   *)
(*                                                                         *)
(* Abstractions.  An item stands for its utterance and for the generation  *)
(* admitted for it.  The dict of per-key queues is one sequence, the       *)
(* queues joined in the dict's key order: a key without items is not in    *)
(* the dict.  The two interrupted states and the two first ones (displayed, *)
(* queued) of a record are one each.  What the slot's holder does until it  *)
(* leaves is SpeechLifecycle's business.                                    *)
(***************************************************************************)
EXTENDS Naturals, Sequences, FiniteSets, Functions, FiniteSetsExt

CONSTANTS Items,   \* utterances; each is enqueued at most once
          KeyOf,   \* work_item_id of an item; an ack's is its turn's ack key
          RoleOf,  \* "result", "timeout_notice" or "ack"
          None

\* An ack's key is made from its turn's id ("ack-..."), a result's from its work item's.
ASSUME SchedulerAssumption ==
    /\ None \notin Items
    /\ \A i, j \in Items : KeyOf[i] = KeyOf[j] => (RoleOf[i] = "ack" <=> RoleOf[j] = "ack")

VARIABLES
    used,       \* items enqueued so far
    queue,      \* _queues
    active,     \* the item of the _active lease
    bound,      \* _provider_contexts has the lease's context
    paused,     \* _paused, oldest entry first
    call,       \* where the start_next call that admitted an item is
    advances,   \* _advance_tasks not yet run, by the item whose failure made it
    discarded,  \* _discarded
    record,     \* SessionState.speech: an item's public delivery state
    settled,    \* acks reported to the turn-ack ledger, or removed by it
    admitted,   \* history: items that were given the slot
    slot,       \* the generation in the coordinator's slot
    stopped,    \* the slot's holder has an interruption recorded
    notify,     \* on_terminal calls scheduled by release_generation
    closed,     \* the coordinator saw connection_closed
    tts,        \* this connection has a TTS service
    up,         \* ConnectionPipeline.active
    epoch,      \* "current", "none" or "replaced": the session's active epoch
    tearing,    \* the output teardown of this lane is awaited
    shutdown    \* ConnectionPipeline.shutdown: none, scheduled, closing, done

leaseVars == <<active, bound>>
slotVars == <<slot, stopped>>
hostVars == <<tts, up, epoch, tearing, shutdown>>
vars == <<used, queue, active, bound, paused, call, advances, discarded, record,
          settled, admitted, slot, stopped, notify, closed, tts, up, epoch,
          tearing, shutdown>>

Keys == {KeyOf[i] : i \in Items}
IsAck(i) == RoleOf[i] = "ack"
Acks(S) == {i \in S : IsAck(i)}
Queued == Range(queue)
Paused == Range(paused)
Held(i) == i \in Queued \cup Paused \cup {active}

\* The host still has this pipeline as its connection and it takes speech.
Acceptable == epoch = "current" /\ up

-----------------------------------------------------------------------------
(* Public delivery records *)

Rank == [none |-> 0, queued |-> 1, started |-> 2, resumed |-> 2,
         synthesis_ended |-> 3, paused |-> 3, unknown |-> 5, interrupted |-> 7]
States == DOMAIN Rank
Terminal == {"unknown", "interrupted"}

\* SessionState's fence: a record of a replaced epoch is frozen.
Open == epoch # "replaced"

\* _emit_progress for every item of S.  Acks are invisible, terminal records stay,
\* and a lower-ranked state never replaces a higher one.
Emit(rc, S, state, open) ==
    [i \in Items |->
        IF /\ i \in S /\ ~IsAck(i) /\ open
           /\ rc[i] \notin Terminal
           /\ Rank[state] >= Rank[rc[i]]
        THEN state ELSE rc[i]]

-----------------------------------------------------------------------------
(* The queue *)

\* q without the items of S, in order.
Without(q, S) ==
    LET kept[n \in 0..Len(q)] ==
            IF n = 0 THEN <<>>
            ELSE IF q[n] \in S THEN kept[n - 1] ELSE Append(kept[n - 1], q[n])
    IN  kept[Len(q)]

\* A new item goes behind the last one of its key, or at the end.
Insert(q, i) ==
    LET same == {n \in DOMAIN q : KeyOf[q[n]] = KeyOf[i]}
    IN  IF same = {} THEN Append(q, i)
        ELSE SubSeq(q, 1, Max(same)) \o <<i>> \o SubSeq(q, Max(same) + 1, Len(q))

\* _paused[key] = item keeps the place of the key's earlier entry.
PutPaused(p, i) ==
    IF \E n \in DOMAIN p : KeyOf[p[n]] = KeyOf[i]
    THEN [n \in DOMAIN p |-> IF KeyOf[p[n]] = KeyOf[i] THEN i ELSE p[n]]
    ELSE Append(p, i)

-----------------------------------------------------------------------------
(* start_next *)

\* pre_admission_disposition rejects an item for good.
Rejected(i) == ~tts \/ closed \/ (IsAck(i) /\ ~Acceptable)

\* start_next over the queues of the keys ks, when the queue, the records, the lease
\* and the slot are q, rc, lease and holder.  Rejected items are dropped until one
\* can be admitted; how is the place its call waits in.  A lane that is not the
\* host's current one makes speak raise at once.
StartNext(ks, q, rc, lease, holder, how) ==
    LET scan == {n \in DOMAIN q : KeyOf[q[n]] \in ks}
        live == {n \in scan : ~Rejected(q[n])}
        dropped == {q[n] : n \in {m \in scan : \A l \in live : m < l}}
        fallen == Emit(rc, dropped, "unknown", Open)
    IN  IF lease # None \/ holder # None
        THEN /\ queue' = q /\ record' = rc /\ active' = lease /\ slot' = holder
             /\ UNCHANGED <<settled, call, admitted>>
        ELSE /\ settled' = settled \cup Acks(dropped)
             /\ IF live = {}
                THEN /\ queue' = Without(q, dropped) /\ record' = fallen
                     /\ active' = None /\ slot' = None
                     /\ UNCHANGED <<call, admitted>>
                ELSE LET i == q[Min(live)]
                     IN  /\ queue' = Without(q, dropped \cup {i})
                         /\ record' = Emit(fallen, {i}, "started", Open)
                         /\ active' = i /\ slot' = i
                         /\ admitted' = admitted \cup {i}
                         /\ call' = [call EXCEPT
                                ![i] = IF Acceptable THEN how ELSE "doomed"]

\* The lease and the recorded interruption after start_next.
Refresh ==
    /\ bound' = (bound /\ active' = active)
    /\ stopped' = (stopped /\ slot' = slot)

-----------------------------------------------------------------------------
(* Turn handlers of the host *)

Init ==
    /\ used = {} /\ queue = <<>> /\ active = None /\ bound = FALSE /\ paused = <<>>
    /\ call = [i \in Items |-> "idle"]
    /\ advances = {} /\ discarded = FALSE
    /\ record = [i \in Items |-> "none"]
    /\ settled = {} /\ admitted = {}
    /\ slot = None /\ stopped = FALSE /\ notify = {} /\ closed = FALSE
    /\ tts \in BOOLEAN
    /\ up = TRUE /\ epoch = "current" /\ tearing = FALSE /\ shutdown = "none"

\* _commit_and_speak: a turn's one result or notice, under a key of its own.
CommitAndSpeak(i) ==
    /\ ~IsAck(i)
    /\ \A j \in used : KeyOf[j] # KeyOf[i]
    /\ Acceptable
    /\ used' = used \cup {i}
    /\ StartNext({KeyOf[i]}, Insert(queue, i),
                 Emit(record, {i}, "queued", Open), active, slot, "speak")
    /\ Refresh
    /\ UNCHANGED <<paused, advances, discarded, notify, closed, hostVars>>

\* record_interruption and _release for the lease, when it is in S.
StopLease(S) ==
    /\ stopped' = (stopped \/ (active \in S /\ slot = active))
    /\ active' = IF active \in S THEN None ELSE active
    /\ bound' = (bound /\ active \notin S)

\* A pause of the utterance being spoken.
Pause ==
    /\ active # None
    /\ paused' = PutPaused(paused, active)
    /\ record' = Emit(record, {active}, "paused", Open)
    /\ StopLease({active})
    /\ UNCHANGED <<used, queue, call, advances, discarded, settled, admitted, slot,
                   notify, closed, hostVars>>

\* The resumed item leaves _paused.  Slip: it stays.
StayPaused(i) == paused' = paused
Unpause(i) == paused' = Without(paused, {i})

\* resume of paused item i.  An ack is dropped and its turn told.
ResumeAck(i) ==
    /\ i \in Acks(Paused)
    /\ Unpause(i)
    /\ settled' = settled \cup {i}
    /\ UNCHANGED <<used, queue, leaseVars, call, advances, discarded, record, admitted,
                   slotVars, notify, closed, hostVars>>

\* Other speech is replayed as a fresh utterance j of the same work item.
Resume(i, j) ==
    /\ i \in Paused
    /\ ~IsAck(i)
    /\ j \notin used
    /\ KeyOf[j] = KeyOf[i] /\ RoleOf[j] = RoleOf[i]
    /\ Unpause(i)
    /\ used' = used \cup {j}
    /\ StartNext({KeyOf[j]}, Insert(queue, j),
                 Emit(Emit(record, {i}, "interrupted", Open), {j}, "resumed", Open), active, slot, "speak")
    /\ Refresh
    /\ UNCHANGED <<advances, discarded, notify, closed, hostVars>>

\* The acks a cancel sweeps are reported to the ledger.  Slip: they are not.
NotifySweptNone(S) == {}
NotifySwept(S) == Acks(S)

\* cancel of one work item, or of all of them.
Cancel(ks) ==
    LET swept == {i \in Queued \cup Paused : KeyOf[i] \in ks}
        stop == {i \in {active} \ {None} : KeyOf[i] \in ks}
    IN  /\ queue' = Without(queue, swept)
        /\ paused' = Without(paused, swept)
        /\ record' = Emit(record, swept \cup stop, "interrupted", Open)
        /\ settled' = settled \cup NotifySwept(swept)
        /\ StopLease(stop)
        /\ UNCHANGED <<used, call, advances, discarded, admitted, slot, notify, closed,
                       hostVars>>

\* discard_queued_notice, when the late result of its work item is committed.
DiscardQueuedNotice(k) ==
    LET S == {i \in Queued : KeyOf[i] = k /\ RoleOf[i] = "timeout_notice"}
    IN  /\ Acceptable
        /\ S # {}
        /\ queue' = Without(queue, S)
        /\ record' = Emit(record, S, "interrupted", Open)
        /\ UNCHANGED <<used, leaseVars, paused, call, advances, discarded, settled,
                       admitted, slotVars, notify, closed, hostVars>>

-----------------------------------------------------------------------------
(* The turn-ack ledger's calls.  It may enqueue a tick after it checked the lane. *)

EnqueueAck(i) ==
    /\ IsAck(i) /\ i \notin used
    /\ tts
    /\ used' = used \cup {i}
    /\ queue' = Insert(queue, i)
    /\ UNCHANGED <<leaseVars, paused, call, advances, discarded, record, settled,
                   admitted, slotVars, notify, closed, hostVars>>

AdmitAck(k) ==
    /\ \E i \in Acks(used) : KeyOf[i] = k
    /\ StartNext({k}, queue, record, active, slot, "speak")
    /\ Refresh
    /\ UNCHANGED <<used, paused, advances, discarded, notify, closed, hostVars>>

\* discard_queued_ack removes what its caller may find queued, or nothing.
RemoveQueuedAck(k) ==
    LET S == {i \in Acks(Queued) : KeyOf[i] = k}
    IN  queue' = Without(queue, S) /\ settled' = settled \cup S

DiscardQueuedAck(k) ==
    /\ RemoveQueuedAck(k)
    /\ UNCHANGED <<used, leaseVars, paused, call, advances, discarded, record,
                   admitted, slotVars, notify, closed, hostVars>>

-----------------------------------------------------------------------------
(* The suspended start_next calls *)

SpeakReturns(i) ==
    /\ call[i] \in {"speak", "advance"}
    /\ call' = [call EXCEPT ![i] = "idle"]
    /\ UNCHANGED <<used, queue, leaseVars, paused, advances, discarded, record, settled,
                   admitted, slotVars, notify, closed, hostVars>>

\* speak raised: the record is settled before provider_error is awaited.
SpeakRaises(i) ==
    /\ call[i] \in {"speak", "advance", "doomed"}
    /\ call' = [call EXCEPT ![i] = "fail"]
    /\ record' = Emit(record, {i}, "unknown", Open)
    /\ UNCHANGED <<used, queue, leaseVars, paused, advances, discarded, settled,
                   admitted, slotVars, notify, closed, hostVars>>

\* _release.
Release(i) ==
    /\ active' = IF active = i THEN None ELSE active
    /\ bound' = (bound /\ active # i)

\* Slips: the other keys are not probed again; a discarded scheduler probes on.
ScheduleNothing(i) == advances' = advances
ScheduleAlways(i) == advances' = advances \cup {i}

\* _schedule_queue_advance is refused once the scheduler is discarded.
ScheduleQueueAdvance(i) ==
    advances' = IF discarded THEN advances ELSE advances \cup {i}

\* After provider_error: free the slot without on_terminal, drop the lease and
\* schedule a probe of the other keys.  The caller of start_next gets the
\* exception in the same step.
ReleaseSubmission(i) ==
    /\ call[i] = "fail"
    /\ call' = [call EXCEPT ![i] = "idle"]
    /\ slot' = IF slot = i THEN None ELSE slot
    /\ stopped' = (stopped /\ slot # i)
    /\ Release(i)
    /\ ScheduleQueueAdvance(i)
    /\ UNCHANGED <<paused, discarded, record, admitted, notify, closed, hostVars>>

FailRelease(i) == ReleaseSubmission(i) /\ UNCHANGED <<used, queue, settled>>

\* The scheduled probe: start_next on the first other key.
Advance(i) ==
    LET others == {n \in DOMAIN queue : KeyOf[queue[n]] # KeyOf[i]}
        ks == IF others = {} THEN {} ELSE {KeyOf[queue[Min(others)]]}
    IN  /\ i \in advances
        /\ advances' = advances \ {i}
        /\ StartNext(ks, queue, record, active, slot, "advance")
        /\ Refresh
        /\ UNCHANGED <<used, paused, discarded, notify, closed, hostVars>>

-----------------------------------------------------------------------------
(* Provider events and the coordinator *)

ProviderStarted ==
    /\ active # None /\ ~bound /\ Acceptable
    /\ bound' = TRUE
    /\ UNCHANGED <<used, queue, active, paused, call, advances, discarded, record,
                   settled, admitted, slotVars, notify, closed, hostVars>>

SynthesisEnded ==
    /\ active # None /\ bound /\ Acceptable
    /\ record' = Emit(record, {active}, "synthesis_ended", Open)
    /\ UNCHANGED <<used, queue, leaseVars, paused, call, advances, discarded, settled,
                   admitted, slotVars, notify, closed, hostVars>>

\* provider_delivery_unknown, for a context the coordinator does not know (yet):
\* the scheduler frees the slot itself and on_terminal is called later.
ProviderDeliveryUnknown ==
    /\ active # None /\ bound /\ Acceptable
    /\ record' = Emit(record, {active}, "unknown", Open)
    /\ slot' = IF slot = active THEN None ELSE slot
    /\ stopped' = (stopped /\ slot # active)
    /\ notify' = IF slot = active THEN notify \cup {active} ELSE notify
    /\ Release(active)
    /\ UNCHANGED <<used, queue, paused, call, advances, discarded, settled, admitted,
                   closed, hostVars>>

\* on_terminal of generation i, the slot being held by holder: an unknown delivery
\* settles the lease, then the whole queue is probed.
OnTerminal(i, unknown, holder) ==
    LET mine == epoch = "current" /\ unknown /\ active = i
        lease == IF mine THEN None ELSE active
        rc == IF mine THEN Emit(record, {i}, "unknown", Open) ELSE record
        ks == IF Acceptable THEN Keys ELSE {}
    IN  /\ StartNext(ks, queue, rc, lease, holder, "speak")
        /\ Refresh

\* The slot's holder leaves: with its interruption, or else as an unknown delivery.
Settle ==
    /\ slot # None
    /\ OnTerminal(slot, ~stopped, None)
    /\ UNCHANGED <<used, paused, advances, discarded, notify, closed, hostVars>>

Notify(i) ==
    /\ i \in notify
    /\ notify' = notify \ {i}
    /\ OnTerminal(i, TRUE, slot)
    /\ UNCHANGED <<used, paused, advances, discarded, closed, hostVars>>

-----------------------------------------------------------------------------
(* The end of the connection *)

\* Slip: the sweep's records go through the epoch fence.
SweepRecordsFenced(S) == record' = Emit(record, S, "interrupted", epoch' # "replaced")

\* The sweep passes the epoch fence: the scheduler is gone either way.
SweepRecords(S) == record' = Emit(record, S, "interrupted", TRUE)

\* interrupt(full_stop) from ConnectionPipeline.deactivate: nothing stays queued,
\* leased or paused, and the queue-advance tasks are cancelled; one that is
\* suspended in speak gets the cancellation there.
Deactivate ==
    /\ up' = FALSE
    /\ StopLease({active} \ {None})
    /\ SweepRecords(Queued \cup Paused \cup ({active} \ {None}))
    /\ settled' = settled \cup Acks(Queued \cup Paused)
    /\ queue' = <<>> /\ paused' = <<>>
    /\ discarded' = TRUE /\ advances' = {}
    /\ call' = [i \in Items |-> IF call[i] = "advance" THEN "doomed" ELSE call[i]]
    /\ UNCHANGED <<used, admitted, slot>>

\* connect promotes another connection, or abort_connection drops this one.
LoseConnection(e) ==
    /\ epoch = "current"
    /\ epoch' = e
    /\ shutdown' = IF shutdown = "none" THEN "scheduled" ELSE shutdown
    /\ Deactivate
    /\ UNCHANGED <<notify, closed, tts, tearing>>

\* A connection promoted after an abort fences the old epoch.
Supersede ==
    /\ epoch = "none"
    /\ epoch' = "replaced"
    /\ UNCHANGED <<used, queue, leaseVars, paused, call, advances, discarded, record,
                   settled, admitted, slotVars, notify, closed, tts, up, tearing, shutdown>>

\* dispatch_teardown fences the lane before it awaits the output teardown, and
\* schedules the shutdown after it.
BeginTeardown ==
    /\ slot # None /\ ~tearing /\ shutdown = "none"
    /\ up' = FALSE
    /\ tearing' = TRUE
    /\ UNCHANGED <<used, queue, leaseVars, paused, call, advances, discarded, record,
                   settled, admitted, slotVars, notify, closed, tts, epoch, shutdown>>

EndTeardown ==
    /\ tearing
    /\ tearing' = FALSE
    /\ shutdown' = IF shutdown = "closing" THEN shutdown ELSE "scheduled"
    /\ UNCHANGED <<used, queue, leaseVars, paused, call, advances, discarded, record,
                   settled, admitted, slotVars, notify, closed, tts, up, epoch>>

\* ConnectionPipeline.shutdown sweeps again, stops the worker, then closes the
\* coordinator, which cancels its scheduled on_terminal calls.
BeginShutdown ==
    /\ shutdown = "scheduled"
    /\ shutdown' = "closing"
    /\ Deactivate
    /\ UNCHANGED <<notify, closed, tts, epoch, tearing>>

ConnectionClosed ==
    /\ shutdown = "closing"
    /\ shutdown' = "done"
    /\ closed' = TRUE
    /\ slot' = None /\ stopped' = FALSE /\ notify' = {}
    /\ UNCHANGED <<used, queue, leaseVars, paused, call, advances, discarded, record,
                   settled, admitted, tts, up, epoch, tearing>>

-----------------------------------------------------------------------------
(* Specification *)

Turns ==
    \/ \E i \in Items : CommitAndSpeak(i) \/ ResumeAck(i)
    \/ \E i, j \in Items : Resume(i, j)
    \/ Pause
    \/ \E k \in Keys : Cancel({k}) \/ DiscardQueuedNotice(k)
    \/ Cancel(Keys)

AckLedger ==
    \/ \E i \in Items : EnqueueAck(i)
    \/ \E k \in Keys : AdmitAck(k) \/ DiscardQueuedAck(k)

Calls(i) == SpeakReturns(i) \/ SpeakRaises(i) \/ FailRelease(i) \/ Advance(i) \/ Notify(i)

Provider == ProviderStarted \/ SynthesisEnded \/ ProviderDeliveryUnknown

Ending == BeginShutdown \/ ConnectionClosed \/ EndTeardown

Connection ==
    \/ \E e \in {"none", "replaced"} : LoseConnection(e)
    \/ Supersede \/ BeginTeardown \/ Ending

Next == Turns \/ AckLedger \/ (\E i \in Items : Calls(i)) \/ Provider \/ Settle \/ Connection

Spec == Init /\ [][Next]_vars

\* speak returns or raises, scheduled coroutines run, the slot's holder leaves it
\* at some time, and a shutdown that was scheduled runs to its end.
Fairness ==
    /\ \A i \in Items :
          /\ WF_vars(SpeakReturns(i) \/ SpeakRaises(i))
          /\ WF_vars(FailRelease(i))
          /\ WF_vars(Advance(i))
          /\ WF_vars(Notify(i))
    /\ WF_vars(Settle)
    /\ WF_vars(EndTeardown)
    /\ WF_vars(BeginShutdown)
    /\ WF_vars(ConnectionClosed)

FairSpec == Spec /\ Fairness

-----------------------------------------------------------------------------
(* Properties *)

TypeOK ==
    /\ used \subseteq Items
    /\ queue \in Seq(Items) /\ paused \in Seq(Items)
    /\ active \in Items \cup {None}
    /\ bound \in BOOLEAN
    /\ call \in [Items -> {"idle", "speak", "advance", "doomed", "fail"}]
    /\ advances \subseteq Items
    /\ discarded \in BOOLEAN
    /\ record \in [Items -> States]
    /\ settled \subseteq Items /\ admitted \subseteq Items
    /\ slot \in Items \cup {None}
    /\ stopped \in BOOLEAN
    /\ notify \subseteq Items
    /\ closed \in BOOLEAN /\ tts \in BOOLEAN /\ up \in BOOLEAN /\ tearing \in BOOLEAN
    /\ epoch \in {"current", "none", "replaced"}
    /\ shutdown \in {"none", "scheduled", "closing", "done"}

\* A public delivery record is open only while the scheduler holds its
\* utterance, so no record "leaks into every later connection's snapshot": not
\* through a reconnect racing a teardown, a failed submission, a pause and
\* resume or a cancel.  And what is queued or spoken has an open record; only an
\* utterance whose speak raised is settled on the wire before its lease is
\* dropped, or although it was paused meanwhile.
\* Nor is a lease left behind by the slot: start_next refuses for ever while _active
\* is set, so a lease whose generation left the slot would silence the connection.
RecordsAgree ==
    /\ \A i \in used : ~IsAck(i) =>
          /\ record[i] \notin Terminal => Held(i)
          /\ i \in Queued \cup {active} => record[i] \notin Terminal \/ call[i] = "fail"
    /\ active # None => slot = active

\* A result is never lined up twice: of the utterances of one work item, replays
\* included, at most one is queued, paused or being spoken.
SpeechOnce ==
    \A i, j \in used :
        Held(i) /\ Held(j) /\ KeyOf[i] = KeyOf[j] /\ ~IsAck(i) => i = j

\* An ack that goes away without having reached the slot is reported to the
\* turn-ack ledger (or the ledger removed it), whichever sweep took it: else its
\* turn's latch would never be cleared.
AcksAccountedFor ==
    \A i \in Acks(used) : Held(i) \/ i \in admitted \cup settled

\* interrupt(full_stop) is final: a submission failure, a resume or a terminal
\* notification that was under way brings no speech and no queue-advance task
\* back to a discarded scheduler.
DiscardedForGood ==
    discarded =>
        /\ active = None /\ paused = <<>> /\ advances = {}
        /\ Queued = Acks(Queued)
        /\ \A i \in Items : call[i] # "advance"

\* Queued results do not stall: one leaves the queue, spoken or settled, although
\* nobody but the end of other speech, a failed submission or the end of the
\* connection probes the queue again.
QueueDrains == \A i \in Items \ Acks(Items) : i \in Queued ~> i \notin Queued
===============================================================================
