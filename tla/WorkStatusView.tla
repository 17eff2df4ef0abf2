---------------------------- MODULE WorkStatusView ----------------------------
(***************************************************************************)
(* The browser's copy of the work-status ledger (web/src/state.js), kept   *)
(* up to date by the increments and snapshots that the server sends.       *)
(*                                                                         *)
(* A JavaScript object is a sequence of entries in insertion order.  The   *)
(* connection delivers in order, and may lose an increment.  The reducer   *)
(* does not see the loss but the gap that the next increment shows; it     *)
(* then asks for a snapshot and ignores increments until one arrives (the  *)
(* envelope sequences themselves are modelled in SnapshotBarrier).  Both   *)
(* clocks are `now'.                                                       *)
(***************************************************************************)
EXTENDS WorkStatusLedger

CONSTANTS ViewMax,   \* WORK_STATUS_MAX_KEYS in the browser
          MaxTombs,  \* WORK_STATUS_MAX_TOMBSTONES
          MaxFaults, \* bound on lost increments and reconnects
          MaxInFlight \* bound on messages in flight before a ledger step

VARIABLES view,     \* state.workStatus: entries [key, state, seq, since, restored]
          vtombs,   \* state.workStatusTombstones: entries [key, seq]
          channel,  \* messages on their way to the browser
          origin,   \* whether the connection is still the turns' own epoch
          missed,   \* an increment was lost and none has arrived since
          lagging,  \* the reducer waits for a snapshot (snapshotRequestPending)
          requested, \* the server has yet to answer a snapshot request
          faults,   \* lost increments and reconnects so far
          seen,     \* per key, the highest event_sequence ever in the view
          carried   \* the keys of the snapshot just applied, if one was

viewVars == <<view, vtombs, channel, origin, missed, lagging, requested,
              faults, seen, carried>>

allVars == <<vars, viewVars>>

Entries(obj, k) == SelectSeq(obj, LAMBDA e : e.key = k)
Has(obj, k) == Entries(obj, k) # <<>>
Get(obj, k) == Head(Entries(obj, k))
Delete(obj, k) == SelectSeq(obj, LAMBDA e : e.key # k)

Put(obj, entry) ==
  IF Has(obj, entry.key)
  THEN [n \in DOMAIN obj |-> IF obj[n].key = entry.key THEN entry ELSE obj[n]]
  ELSE Append(obj, entry)

(***************************************************************************)
(* Retention.  Each pass yields what is kept; what it dropped is the rest. *)
(***************************************************************************)
Stamp(e) == IF e.since # Never THEN e.since ELSE e.restored

PruneView(obj, t) ==
  SelectSeq(obj, LAMBDA e : Stamp(e) = Never \/ t - Stamp(e) < TTL)

EvictView(obj, protect) ==
  LET candidates(o) == {n \in DOMAIN o : o[n].key # protect /\ Stamp(o[n]) # Never}
      oldest(o) == CHOOSE n \in candidates(o) :
                     \A m \in candidates(o) \ {n} :
                        Stamp(o[n]) < Stamp(o[m]) \/ (Stamp(o[n]) = Stamp(o[m]) /\ n < m)
      pass(o, e) == IF Len(o) > ViewMax /\ candidates(o) # {}
                    THEN RemoveAt(o, oldest(o)) ELSE o
  IN  FoldLeft(pass, obj, obj)

RememberDropped(tombs, dropped) ==
  LET note(acc, e) ==
        Put(acc, [key |-> e.key,
                  seq |-> IF Has(acc, e.key) /\ Get(acc, e.key).seq > e.seq
                          THEN Get(acc, e.key).seq ELSE e.seq])
      all == FoldLeft(note, tombs, dropped)
  IN  IF Len(all) > MaxTombs THEN SubSeq(all, Len(all) - MaxTombs + 1, Len(all)) ELSE all

\* Slip: only other keys than the one just written leave a tombstone, and a
\* record that expires as it is written leaves nothing.
TombstonedOthers(e, k, retained) == e.key # k

Tombstoned(e, k, retained) == e.key # k \/ ~Has(retained, k)

TerminalSince(e, previous, t) ==
  IF e.state \notin Terminal THEN Never
  ELSE IF previous.since # Never THEN previous.since ELSE t

RestoredAt(e, previous, t, isRestore) ==
  IF e.state \in Terminal THEN Never
  ELSE IF previous.restored # Never THEN previous.restored
  ELSE IF isRestore THEN t ELSE Never

\* upsertWorkStatus; `previous' is the record the clocks are taken from.
Upsert(acc, e, t, previous, isRestore) ==
  LET entry == [key |-> e.key, state |-> e.state, seq |-> e.seq,
                since |-> TerminalSince(e, previous, t),
                restored |-> RestoredAt(e, previous, t, isRestore)]
      with == Put(acc.view, entry)
      kept == EvictView(PruneView(with, t), e.key)
      dropped == SelectSeq(with, LAMBDA x : ~Has(kept, x.key) /\ Tombstoned(x, e.key, kept))
  IN  [view |-> kept, tombs |-> RememberDropped(acc.tombs, dropped)]

NoRecord == [since |-> Never, restored |-> Never]
Previous(obj, k) == IF Has(obj, k) THEN Get(obj, k) ELSE NoRecord

-----------------------------------------------------------------------------
(***************************************************************************)
(* The two messages.                                                       *)
(***************************************************************************)
\* Slip: the next sequence in turn counts as stale.
StaleNext(e) == Has(view, e.key) /\ Get(view, e.key).seq + 1 >= e.seq

Stale(e) == IF Has(view, e.key) THEN Get(view, e.key).seq >= e.seq
            ELSE Has(vtombs, e.key) /\ Get(vtombs, e.key).seq >= e.seq

ApplyIncrement(e) ==
  LET next == Upsert([view |-> view, tombs |-> vtombs], e, now, Previous(view, e.key), FALSE) IN
  /\ carried' = {}
  /\ IF lagging \/ missed \/ Stale(e) THEN UNCHANGED <<view, vtombs>>
     ELSE view' = next.view /\ vtombs' = next.tombs

SnapshotDrops(restored) == SelectSeq(view, LAMBDA e : ~Has(restored, e.key))

ApplySnapshot(records) ==
  LET step(acc, e) ==
        LET next == Upsert(acc, e, now, Previous(view, e.key), TRUE)
        IN  [view |-> next.view, tombs |-> Delete(next.tombs, e.key)]
      all == FoldLeft(step, [view |-> <<>>, tombs |-> vtombs], records)
  IN  /\ view' = all.view
      /\ vtombs' = RememberDropped(all.tombs, SnapshotDrops(all.view))
      /\ carried' = {records[n].key : n \in DOMAIN records}

Receive ==
  LET m == Head(channel) IN
  /\ channel # <<>>
  /\ channel' = Tail(channel)
  /\ IF m.kind = "snapshot" THEN ApplySnapshot(m.records) ELSE ApplyIncrement(m.event)
  /\ missed' = FALSE
  /\ lagging' = (m.kind # "snapshot" /\ (lagging \/ missed))
  /\ requested' = (requested \/ (m.kind # "snapshot" /\ missed /\ ~lagging))
  /\ seen' = [k \in Keys |-> IF Has(view', k) /\ Get(view', k).seq > seen[k]
                             THEN Get(view', k).seq ELSE seen[k]]
  /\ UNCHANGED <<vars, origin, faults>>

-----------------------------------------------------------------------------
ViewInit ==
  /\ Init
  /\ view = <<>> /\ vtombs = <<>> /\ channel = <<>>
  /\ origin = TRUE /\ missed = FALSE /\ lagging = FALSE /\ requested = FALSE
  /\ faults = 0
  /\ seen = [k \in Keys |-> 0] /\ carried = {}

\* One step emits for one key, so the order of the keys does not matter.
KeySeq == SetToSeq(Keys)

\* A ledger step; its events follow on the connection if it may see them
\* (RuntimeObserver._visible: the event's epoch is the connection's).
LedgerStep ==
  /\ Len(channel) < MaxInFlight
  /\ Next
  /\ LET fresh(k) == SubSeq(sent'[k], Len(sent[k]) + 1, Len(sent'[k]))
         events == FlattenSeq([n \in DOMAIN KeySeq |-> fresh(KeySeq[n])])
     IN  channel' = IF ~origin THEN channel
                    ELSE channel \o [n \in DOMAIN events |->
                                        [kind |-> "increment", event |-> events[n]]]
  /\ carried' = {}
  /\ UNCHANGED <<view, vtombs, origin, missed, lagging, requested, faults, seen>>

\* The parents as work_status_snapshot projects them.
Records(l) == [n \in DOMAIN l.order |-> Event(l.order[n], l)]

SnapshotMessage == [kind |-> "snapshot", records |-> Records(PruneExpired(ledger, now))]

\* The server answers a request with the ledger of that moment.
AnswerSnapshot ==
  /\ requested
  /\ channel' = Append(channel, SnapshotMessage)
  /\ ledger' = PruneExpired(ledger, now)
  /\ requested' = FALSE
  /\ carried' = {}
  /\ UNCHANGED <<now, phase, sent, restarts, view, vtombs, origin, missed, lagging, faults, seen>>

\* The increment at the head of the channel is lost, and no one notices.
LoseIncrement ==
  /\ faults < MaxFaults
  /\ channel # <<>> /\ Head(channel).kind = "increment"
  /\ channel' = Tail(channel)
  /\ missed' = TRUE
  /\ faults' = faults + 1
  /\ carried' = {}
  /\ UNCHANGED <<vars, view, vtombs, origin, lagging, requested, seen>>

\* A new connection: what was in flight is gone, the browser asks for a
\* snapshot, and increments of the old epoch are no longer visible.
Reconnect ==
  /\ faults < MaxFaults
  /\ channel' = <<>>
  /\ origin' = FALSE
  /\ missed' = FALSE
  /\ lagging' = TRUE
  /\ requested' = TRUE
  /\ faults' = faults + 1
  /\ carried' = {}
  /\ UNCHANGED <<vars, view, vtombs, seen>>

ViewNext == LedgerStep \/ Receive \/ AnswerSnapshot \/ LoseIncrement \/ Reconnect

ViewSpec == ViewInit /\ [][ViewNext]_allVars

-----------------------------------------------------------------------------
(* Types of the browser's state. *)
ViewTypeOK ==
  /\ \A n \in DOMAIN view :
        /\ view[n].key \in Keys /\ view[n].state \in States /\ view[n].seq \in Nat
        /\ view[n].since \in Never..now /\ view[n].restored \in Never..now
        /\ (view[n].since # Never) <=> (view[n].state \in Terminal)
  /\ \A n \in DOMAIN vtombs : vtombs[n].key \in Keys /\ vtombs[n].seq \in Nat
  /\ Len(vtombs) <= MaxTombs
  /\ {missed, lagging, requested, origin} \subseteq BOOLEAN /\ faults \in 0..MaxFaults

(* Nothing shown is forgotten without a trace: a key the browser ever had  *)
(* in its view is still there, or its tombstone holds a sequence at least  *)
(* as high, so no late increment resurrects it (unless the tombstones      *)
(* overflowed).                                                            *)
Remembered ==
  \A k \in Keys :
     seen[k] > 0 => \/ Has(view, k) /\ Get(view, k).seq = seen[k]
                    \/ Has(vtombs, k) /\ Get(vtombs, k).seq >= seen[k]
                    \/ Len(vtombs) = MaxTombs

(* Once everything sent has arrived the browser shows what the ledger      *)
(* holds: for every record of the server, the same state, unless the       *)
(* browser's own retention has dropped a record with a clock; and while    *)
(* nothing was lost, a live record is never missing from the view.  After  *)
(* a loss this holds from the next increment on: that one makes the        *)
(* browser ask, a browser that waits for a snapshot has one coming, and    *)
(* with it the browser has caught up.  (Nothing shows the loss of the last *)
(* increment.)                                                             *)
ViewCatchesUp ==
  (channel = <<>> /\ origin /\ restarts = 0) =>
     /\ lagging => requested
     /\ \A k \in Keys :
          /\ ~lagging /\ ~missed /\ ledger.parent[k] # "none" /\ Has(view, k)
               => Get(view, k).state = ledger.parent[k]
          /\ faults = 0 /\ Live(ledger, k) => Has(view, k)

-----------------------------------------------------------------------------
(* What a comment, a document or a test says, and the code does not do. *)

(* "The snapshot is authoritative for every key it carries" (state.js): a  *)
(* live record that a snapshot has just delivered is on display.           *)
SnapshotIsShown ==
  \A k \in carried : (Live(ledger, k) /\ restarts = 0) => Has(view, k)
=============================================================================
