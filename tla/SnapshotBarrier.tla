---------------------------- MODULE SnapshotBarrier ----------------------------
(***************************************************************************)
(* How a browser follows the session log: the connection's observer and    *)
(* snapshot barrier (server/observers.py), the request handler of          *)
(* server/app.py that drives them, the envelopes of                        *)
(* server/rtvi_messages.py, and the reducer of web/src/state.js at the     *)
(* other end.                                                              *)
(*                                                                         *)
(* The session log is a sequence of events, each visible to the current    *)
(* connection or not (foreign epoch, or a capability-gated kind).  A       *)
(* snapshot stands for the log it was taken from.                          *)
(***************************************************************************)
EXTENDS Integers, Sequences, FiniteSets

CONSTANTS MaxEvents, \* bound on session events
          MaxEpoch,  \* bound on connections
          MaxAsks,   \* bound on snapshot requests the user's page adds
          MaxLost,   \* bound on increments whose emit task raises
          MaxFailed  \* bound on barriers that fail (no acknowledgement in
                     \* time, or the snapshot cannot be built)

ASSUME BarrierAssumption ==
  /\ MaxEvents \in Nat /\ MaxEpoch \in Nat \ {0}
  /\ MaxAsks \in Nat /\ MaxLost \in Nat /\ MaxFailed \in Nat

VARIABLES
  log,       \* SessionState: per event, the epoch and whether it is gated
  \* the connection of the current epoch
  epoch,     \* its epoch
  capable,   \* it negotiated the capability behind gated kinds
  projected, \* RuntimeObserver._projected_sequence
  paused,    \* RuntimeObserver._paused
  buffer,    \* RuntimeObserver._buffer: indices into the log
  tasks,     \* emit tasks created and not yet run
  queue,     \* the connection worker's frames, in order
  ready,     \* client-ready was seen
  \* on_client_message
  asks,      \* snapshot-request messages not yet handled
  attempt,   \* 0: snapshot_lock is free; else the attempt that holds it
  stage,     \* of that attempt: "flush" until acknowledged, then "acked"
  watermark, \* the sequence stamped on that attempt's snapshot
  recheck,   \* snapshot_recheck_requested
  \* the browser
  applied,   \* per event of the log, how often the view holds it
  last,      \* lastAppliedSequence
  seenEpoch, \* connectionEpoch (0: null)
  pending,   \* snapshotRequestPending
  gaps,      \* sequence gaps found
  \* bounds
  added, lost, failed

connVars == <<epoch, capable, projected, paused, buffer, tasks, queue, ready>>
handlerVars == <<asks, attempt, stage, watermark, recheck>>
clientVars == <<applied, last, seenEpoch, pending, gaps>>
boundVars == <<added, lost, failed>>

vars == <<log, connVars, handlerVars, clientVars, boundVars>>

Sequence == Len(log)

Visible(n) == log[n].epoch = epoch /\ (log[n].gated => capable)

Increment(n, sequence) == [kind |-> "increment", event |-> n, seq |-> sequence, epoch |-> epoch]
FlushFrame == [kind |-> "flush", seq |-> 0]

SnapshotFrame == [kind |-> "snapshot", seq |-> watermark, upto |-> watermark,
                  epoch |-> epoch, capable |-> capable]

-----------------------------------------------------------------------------
(***************************************************************************)
(* The observer.  Delivering an event projects it, which takes the next    *)
(* sequence, and creates the task that will queue its frame.               *)
(***************************************************************************)
\* The places of the buffer that a replay past w projects.
Replayed(w) == {i \in DOMAIN buffer : buffer[i] > w /\ Visible(buffer[i])}

\* How many of them there are up to place i.
Rank(w, i) == Cardinality({j \in Replayed(w) : j <= i})

\* The tasks they get, in their order, from a given counter.
Tasks(w, from) ==
  [n \in 1..Cardinality(Replayed(w)) |->
     Increment(buffer[CHOOSE i \in Replayed(w) : Rank(w, i) = n], from + n)]

Deliver(w, from) ==
  /\ projected' = from + Cardinality(Replayed(w))
  /\ tasks' = tasks \o Tasks(w, from)

\* _on_event, of the event about to become the log's last.
OnEvent(e, gated) ==
  IF paused
  THEN buffer' = Append(buffer, Sequence + 1) /\ UNCHANGED <<projected, tasks>>
  ELSE IF e = epoch /\ (gated => capable)
  THEN /\ projected' = projected + 1
       /\ tasks' = Append(tasks, Increment(Sequence + 1, projected + 1))
       /\ UNCHANGED buffer
  ELSE UNCHANGED <<projected, tasks, buffer>>

\* SessionState._emit.
SessionEvent(e, gated) ==
  /\ Sequence < MaxEvents
  /\ log' = Append(log, [epoch |-> e, gated |-> gated])
  /\ OnEvent(e, gated)
  /\ applied' = Append(applied, 0)
  /\ UNCHANGED <<epoch, capable, paused, queue, ready, handlerVars,
                 last, seenEpoch, pending, gaps, boundVars>>

\* resume(watermark): reseed, then replay what the snapshot does not hold.
Resume(w) ==
  /\ Deliver(w, w)
  /\ buffer' = <<>> /\ paused' = FALSE

\* emit_frame, for the oldest emit task.
EmitFrame ==
  /\ tasks # <<>>
  /\ tasks' = Tail(tasks)
  /\ queue' = Append(queue, Head(tasks))
  /\ UNCHANGED <<log, epoch, capable, projected, paused, buffer, ready,
                 handlerVars, clientVars, boundVars>>

\* The envelope fails its validation: the task ends with its sequence spent.
EmitRaises ==
  /\ tasks # <<>> /\ lost < MaxLost
  /\ tasks' = Tail(tasks)
  /\ lost' = lost + 1
  /\ UNCHANGED <<log, epoch, capable, projected, paused, buffer, queue, ready,
                 handlerVars, clientVars, added, failed>>

-----------------------------------------------------------------------------
(***************************************************************************)
(* on_client_message and the snapshot delivery it attempts.                *)
(***************************************************************************)

\* The attempt: pause, stamp the snapshot, queue the barrier frame.
BeginAttempt(n) ==
  /\ attempt' = n /\ stage' = "flush" /\ recheck' = FALSE
  /\ paused' = TRUE
  /\ watermark' = Sequence
  /\ queue' = Append(queue, FlushFrame)

OnClientMessage ==
  /\ asks > 0 /\ ready
  /\ asks' = asks - 1
  /\ IF attempt # 0
     THEN /\ recheck' = TRUE
          /\ UNCHANGED <<attempt, stage, watermark, paused, queue>>
     ELSE BeginAttempt(1)
  /\ UNCHANGED <<log, epoch, capable, projected, buffer, tasks, ready,
                 clientVars, boundVars>>

\* install_baseline after the acknowledgement: the snapshot, then the replay.
Install ==
  /\ attempt # 0 /\ stage = "acked"
  /\ queue' = Append(queue, SnapshotFrame)
  /\ Resume(watermark)
  /\ attempt' = 0 /\ stage' = "flush"
  /\ UNCHANGED <<log, epoch, capable, ready, asks, watermark, recheck,
                 clientVars, boundVars>>

Retry == attempt = 1 /\ recheck

\* Slip: an aborted install drops what it buffered.
ReplayNothing == UNCHANGED <<projected, tasks>> /\ buffer' = <<>>

\* resume(None): replay everything, with no new watermark.
ReplayAll == Deliver(0, projected) /\ buffer' = <<>>

\* The barrier fails: resume without a watermark, and try once more if a
\* request was coalesced meanwhile.
Fail ==
  /\ attempt # 0 /\ stage = "flush" /\ failed < MaxFailed
  /\ failed' = failed + 1
  /\ ReplayAll
  /\ IF Retry
     THEN BeginAttempt(2)
     ELSE /\ attempt' = 0 /\ stage' = "flush" /\ paused' = FALSE
          /\ UNCHANGED <<watermark, recheck, queue>>
  /\ UNCHANGED <<log, epoch, capable, ready, asks, clientVars, added, lost>>

\* The snapshot cannot be built: the observer is paused and resumed in one
\* step, and no request can have been coalesced meanwhile.
NotBuilt ==
  /\ asks > 0 /\ ready /\ attempt = 0 /\ failed < MaxFailed
  /\ failed' = failed + 1
  /\ asks' = asks - 1
  /\ recheck' = FALSE
  /\ UNCHANGED <<log, connVars, attempt, stage, watermark, clientVars, added, lost>>

-----------------------------------------------------------------------------
(***************************************************************************)
(* The connection's frames reach the barrier consumer, and the browser.    *)
(***************************************************************************)
\* _SnapshotBarrierConsumer.  A flush frame of an earlier attempt finds its
\* future cancelled.
Flush ==
  /\ queue # <<>> /\ Head(queue).kind = "flush"
  /\ queue' = Tail(queue)
  /\ stage' = IF attempt # 0 /\ stage = "flush"
                 /\ ~\E n \in 2..Len(queue) : queue[n].kind = "flush"
              THEN "acked" ELSE stage
  /\ UNCHANGED <<log, epoch, capable, projected, paused, buffer, tasks, ready,
                 asks, attempt, watermark, recheck, clientVars, boundVars>>

\* What a snapshot holds of the log: everything but gated events the
\* connection may not see.
Holds(m, n) == n <= m.upto /\ (log[n].gated => m.capable)

Stale(m) == m.seq <= last

Gap(m) == m.seq # last + 1

ReceiveSnapshot(m) ==
  IF m.seq < last \/ m.epoch < seenEpoch THEN UNCHANGED <<clientVars, asks>>
  ELSE /\ applied' = [n \in DOMAIN log |-> IF Holds(m, n) THEN 1 ELSE 0]
       /\ last' = m.seq /\ seenEpoch' = m.epoch /\ pending' = FALSE
       /\ UNCHANGED <<gaps, asks>>

\* The reducer's guards, in its order: the epoch, staleness, a pending
\* snapshot, and the gap, which asks for a snapshot.
ReceiveIncrement(m) ==
  IF seenEpoch # m.epoch \/ Stale(m) \/ pending THEN UNCHANGED <<clientVars, asks>>
  ELSE IF Gap(m)
  THEN /\ pending' = TRUE /\ gaps' = gaps + 1 /\ asks' = asks + 1
       /\ UNCHANGED <<applied, last, seenEpoch>>
  ELSE /\ applied' = [applied EXCEPT ![m.event] = @ + 1]
       /\ last' = m.seq
       /\ UNCHANGED <<seenEpoch, pending, gaps, asks>>

Receive ==
  /\ queue # <<>> /\ Head(queue).kind # "flush"
  /\ queue' = Tail(queue)
  /\ IF Head(queue).kind = "snapshot" THEN ReceiveSnapshot(Head(queue))
     ELSE ReceiveIncrement(Head(queue))
  /\ UNCHANGED <<log, epoch, capable, projected, paused, buffer, tasks, ready,
                 attempt, stage, watermark, recheck, boundVars>>

\* The page asks again, unprompted.
AskAgain ==
  /\ ready /\ added < MaxAsks
  /\ added' = added + 1
  /\ asks' = asks + 1
  /\ UNCHANGED <<log, connVars, attempt, stage, watermark, recheck, clientVars,
                 lost, failed>>

-----------------------------------------------------------------------------
(***************************************************************************)
(* Connections.  A new one has its own observer, worker and handler; the   *)
(* old ones are no longer accepted (SessionHost.accepts) and their frames  *)
(* are ignored by the page's generation guard.                             *)
(***************************************************************************)
Connect(c) ==
  /\ epoch < MaxEpoch
  /\ epoch' = epoch + 1
  /\ capable' = c
  /\ projected' = Sequence
  /\ paused' = FALSE /\ buffer' = <<>> /\ tasks' = <<>> /\ queue' = <<>>
  /\ ready' = FALSE
  /\ asks' = 0 /\ attempt' = 0 /\ stage' = "flush" /\ watermark' = 0
  /\ recheck' = FALSE
  /\ UNCHANGED <<log, clientVars, boundVars>>

\* client-ready, answered by bot-ready, on which the page asks for its first
\* snapshot.
ClientReady ==
  /\ epoch > 0 /\ ~ready
  /\ ready' = TRUE
  /\ asks' = asks + 1
  /\ UNCHANGED <<log, epoch, capable, projected, paused, buffer, tasks, queue,
                 attempt, stage, watermark, recheck, clientVars, boundVars>>

Init ==
  /\ log = <<>>
  /\ epoch = 0 /\ capable = FALSE /\ projected = 0 /\ paused = FALSE
  /\ buffer = <<>> /\ tasks = <<>> /\ queue = <<>> /\ ready = FALSE
  /\ asks = 0 /\ attempt = 0 /\ stage = "flush" /\ watermark = 0 /\ recheck = FALSE
  /\ applied = <<>> /\ last = 0 /\ seenEpoch = 0 /\ pending = FALSE /\ gaps = 0
  /\ added = 0 /\ lost = 0 /\ failed = 0

Next ==
  \/ \E e \in 1..epoch, gated \in BOOLEAN : SessionEvent(e, gated)
  \/ EmitFrame \/ EmitRaises
  \/ OnClientMessage \/ NotBuilt \/ Install \/ Fail
  \/ Flush \/ Receive \/ AskAgain
  \/ \E c \in BOOLEAN : Connect(c)
  \/ ClientReady

(***************************************************************************)
(* The loop runs every ready task, the worker drains its queue, and the    *)
(* page becomes ready on every connection.                                 *)
(***************************************************************************)
Fairness ==
  /\ WF_vars(EmitFrame) /\ WF_vars(OnClientMessage) /\ WF_vars(Install)
  /\ WF_vars(Flush) /\ WF_vars(Receive)
  /\ WF_vars(ClientReady)

Spec == Init /\ [][Next]_vars /\ Fairness

-----------------------------------------------------------------------------
(***************************************************************************)
(* Properties.                                                             *)
(***************************************************************************)
TypeOK ==
  /\ \A n \in DOMAIN log : log[n].epoch \in 1..epoch /\ log[n].gated \in BOOLEAN
  /\ epoch \in 0..MaxEpoch /\ capable \in BOOLEAN
  /\ projected \in 0..Sequence /\ paused = (attempt # 0)
  /\ buffer \in Seq(DOMAIN log) /\ (~paused => buffer = <<>>)
  /\ ready \in BOOLEAN /\ asks \in Nat /\ attempt \in 0..2
  /\ stage \in {"flush", "acked"} /\ watermark \in 0..Sequence /\ recheck \in BOOLEAN
  /\ Len(applied) = Sequence /\ last \in 0..Sequence
  /\ seenEpoch \in 0..epoch /\ pending \in BOOLEAN

\* Following: the page has a snapshot of this connection and waits for none.
Following == seenEpoch = epoch /\ ~pending

\* No event is applied twice, whichever of an increment, a replayed increment
\* and a snapshot brings it first (RuntimeObserver.resume, and the reducer's
\* staleness guard), and a page that follows the log has no hole in it: if it
\* holds an event of its connection it holds every earlier one, even when an
\* increment was lost on the way (the reducer's gap detection).  Once nothing
\* is in flight, a page that lost no increment holds every event of its
\* connection: none falls between the pause, the snapshot and the replay.  And
\* it finds a gap only if an increment was lost: events it may not see, failed
\* barriers and tasks that land behind the barrier frame make none
\* (RuntimeObserver.seed).
PageHoldsLog ==
  /\ \A n \in DOMAIN log : applied[n] <= 1
  /\ Following => \A m, n \in DOMAIN log :
                    m < n /\ Visible(m) /\ Visible(n) /\ applied[n] > 0 => applied[m] > 0
  /\ Following /\ lost = 0 /\ ~paused /\ tasks = <<>> /\ queue = <<>>
       => last = projected /\ \A n \in DOMAIN log : Visible(n) => applied[n] > 0
  /\ lost = 0 => gaps = 0

-----------------------------------------------------------------------------
(* What a comment, a document or a test says, and the code does not do. *)

\* A page that waits for a snapshot gets one, barriers that fail included.
NeverStranded == pending ~> ~pending
=============================================================================
