--------------------------- MODULE WorkStatusLedger ---------------------------
(***************************************************************************)
(* The work-status ledger of server/session_state.py: the coarse status of *)
(* every delegated child, the parent aggregate that browsers see, and the  *)
(* retention of both (a time to live, a soft cap, and the tombstones that  *)
(* outlive a forgotten record).  Its clients are the turn handlers of      *)
(* server/pipeline.py and server/turn_epilogue.py, which report through    *)
(* server/work_status_publisher.py.                                        *)
(*                                                                         *)
(* The ledger is one record, because one report may touch all of it:       *)
(*   child       _work_status_children, per work item ("none": no entry)   *)
(*   parent      _work_status_parents, the state of each key's record      *)
(*   order       the insertion order of _work_status_parents               *)
(*   terminalAt  the record's terminal_at (Never: none)                    *)
(*   seq         _work_status_sequence (0: no entry)                       *)
(*   tombs       _work_status_terminal_keys                                *)
(*   nonauth     _work_status_nonauthoritative_keys                        *)
(*   restoredAt  _work_status_nonauthoritative_at (Never: no entry)        *)
(***************************************************************************)
EXTENDS Integers, Sequences, SequencesExt

CONSTANTS Items,      \* delegated work items
          Keys,       \* parent keys (origin_epoch, turn_id, parent work item)
          KeyOf,      \* the key each item reports under
          Kids,       \* per key, its items in delegation order
          MaxKeys,    \* _MAX_WORK_STATUS_KEYS
          TTL,        \* WORK_STATUS_TTL_SECONDS
          MaxTime,    \* bound on the clock
          MaxRestarts \* bound on restores from a snapshot

ASSUME LedgerAssumption ==
  /\ KeyOf \in [Items -> Keys]
  /\ \A k \in Keys : ToSet(Kids[k]) = {i \in Items : KeyOf[i] = k}
  /\ MaxKeys \in Nat /\ TTL \in Nat /\ MaxTime \in Nat /\ MaxRestarts \in Nat

VARIABLES ledger,   \* see above
          now,      \* time.monotonic()
          phase,    \* per item, where its turn handler stands
          sent,     \* the work_status events emitted so far, per key
          restarts  \* restores so far

vars == <<ledger, now, phase, sent, restarts>>

Never == -1

(* contracts._WORK_STATUS_TRANSITIONS and what is derived from it. *)
Successors == [routing      |-> {"searching", "failed", "cancelled"},
               searching    |-> {"background", "result_ready", "failed", "cancelled"},
               background   |-> {"result_ready", "failed", "cancelled"},
               result_ready |-> {}, failed |-> {}, cancelled |-> {}]

States == DOMAIN Successors
Terminal == {s \in States : Successors[s] = {}}
ColdStart == States \ {"cancelled"}

LegalTransition(previous, s) ==
  IF previous = "none" THEN s \in ColdStart ELSE s \in Successors[previous]

Fresh == [child |-> [i \in Items |-> "none"], parent |-> [k \in Keys |-> "none"],
          order |-> <<>>, terminalAt |-> [k \in Keys |-> Never],
          seq |-> [k \in Keys |-> 0], tombs |-> {}, nonauth |-> {},
          restoredAt |-> [k \in Keys |-> Never]]

(***************************************************************************)
(* The parent join over the children that have a status.                   *)
(***************************************************************************)
Reported(l, k) == {l.child[i] : i \in ToSet(Kids[k])} \ {"none"}

Aggregate(states) ==
  IF "routing" \in states THEN "routing"
  ELSE IF "searching" \in states THEN "searching"
  ELSE IF ~(states \subseteq Terminal) THEN "background"
  ELSE IF "failed" \in states THEN "failed"
  ELSE IF states = {"cancelled"} THEN "cancelled"
  ELSE "result_ready"

(***************************************************************************)
(* Forgetting a record, its retention clock, and the two ways it ends.     *)
(***************************************************************************)
ForgetChildren(l, k) == [i \in Items |-> IF KeyOf[i] = k THEN "none" ELSE l.child[i]]

\* Slip: no tombstone is left for a forgotten terminal record.
ForgetNoTombstone(l, k) ==
  [l EXCEPT !.child = ForgetChildren(l, k), !.restoredAt[k] = Never,
            !.parent[k] = "none", !.terminalAt[k] = Never,
            !.order = SelectSeq(@, LAMBDA x : x # k)]

Forget(l, k) ==
  [l EXCEPT !.child = ForgetChildren(l, k),
            !.restoredAt[k] = Never,
            !.parent[k] = "none", !.terminalAt[k] = Never,
            !.order = SelectSeq(@, LAMBDA x : x # k),
            !.tombs = IF l.parent[k] \in Terminal THEN @ \cup {k} ELSE @]

\* Slip: a live record has a clock of its own.
ExpiryStampAlways(l, k) ==
  IF l.parent[k] = "none" THEN Never
  ELSE IF l.terminalAt[k] # Never THEN l.terminalAt[k]
  ELSE IF l.restoredAt[k] # Never THEN l.restoredAt[k] ELSE 0

ExpiryStamp(l, k) ==
  IF l.parent[k] = "none" THEN Never
  ELSE IF l.terminalAt[k] # Never THEN l.terminalAt[k]
  ELSE l.restoredAt[k]

Evictable(l, protect) ==
  {n \in DOMAIN l.order : l.order[n] # protect /\ ExpiryStamp(l, l.order[n]) # Never}

\* The first of the oldest candidates, in the dict's order.
Oldest(l, protect) ==
  LET older(m, n) == \/ ExpiryStamp(l, l.order[m]) < ExpiryStamp(l, l.order[n])
                     \/ /\ ExpiryStamp(l, l.order[m]) = ExpiryStamp(l, l.order[n])
                        /\ m < n
      best == CHOOSE n \in Evictable(l, protect) :
                 \A m \in Evictable(l, protect) \ {n} : older(n, m)
  IN  l.order[best]

\* One insertion grows the ledger by one record, so one pass of the loop is
\* all it ever takes, except after a restore of more than MaxKeys records.
EvictOverflow(l, protect) ==
  LET pass(acc, k) == IF Len(acc.order) > MaxKeys /\ Evictable(acc, protect) # {}
                      THEN Forget(acc, Oldest(acc, protect)) ELSE acc
  IN  FoldLeft(pass, l, l.order)

(***************************************************************************)
(* One report.  A step yields the ledger and the events it emitted.        *)
(***************************************************************************)
Event(k, l) == [key |-> k, state |-> l.parent[k], seq |-> l.seq[k]]

Write(l, k, s, t) ==
  EvictOverflow([l EXCEPT !.seq[k] = @ + 1,
                          !.parent[k] = s,
                          !.terminalAt[k] = IF s \in Terminal THEN t ELSE Never,
                          !.order = IF l.parent[k] = "none" THEN Append(@, k) ELSE @,
                          !.restoredAt[k] =
                             IF k \in l.nonauth /\ @ = Never THEN t ELSE @], k)

\* Slip: a partial child set may settle a restored key.
ReaggregatePartial(l, k, t, out) ==
  LET s == Aggregate(Reported(l, k)) IN
  IF l.parent[k] = "none" /\ k \in l.tombs
  THEN [l |-> [l EXCEPT !.child = ForgetChildren(l, k)], out |-> out]
  ELSE IF l.parent[k] = s \/ l.parent[k] \in Terminal THEN [l |-> l, out |-> out]
  ELSE LET w == Write(l, k, s, t) IN [l |-> w, out |-> Append(out, Event(k, w))]

Reaggregate(l, k, t, out) ==
  LET s == Aggregate(Reported(l, k))
      dropped == [l EXCEPT !.child = ForgetChildren(l, k)]
  IN
  IF l.parent[k] = "none" /\ k \in l.tombs THEN [l |-> dropped, out |-> out]
  ELSE IF l.parent[k] = s \/ l.parent[k] \in Terminal THEN [l |-> l, out |-> out]
  ELSE IF k \in l.nonauth /\ s \in Terminal
       THEN [l |-> IF l.parent[k] = "none" THEN dropped ELSE l, out |-> out]
  ELSE LET w == Write(l, k, s, t) IN [l |-> w, out |-> Append(out, Event(k, w))]

SetChild(acc, i, s, t) ==
  IF ~LegalTransition(acc.l.child[i], s) THEN acc
  ELSE Reaggregate([acc.l EXCEPT !.child[i] = s], KeyOf[i], t, acc.out)

Start(l) == [l |-> l, out |-> <<>>]

\* Install a report's outcome: the ledger, and its events on the session log.
Commit(acc) ==
  /\ ledger' = acc.l
  /\ sent' = [k \in Keys |-> sent[k] \o SelectSeq(acc.out, LAMBDA e : e.key = k)]

-----------------------------------------------------------------------------
(***************************************************************************)
(* The handlers' reports.  An item is "new" until its delegation begins,   *)
(* and its turn delegates its items one after the other.                   *)
(***************************************************************************)
Init == /\ ledger = Fresh
        /\ now = 0
        /\ phase = [i \in Items |-> "new"]
        /\ sent = [k \in Keys |-> <<>>]
        /\ restarts = 0

Emit(i, s) == Commit(SetChild(Start(ledger), i, s, now))

Siblings(i) == ToSet(Kids[KeyOf[i]])

NextToDelegate(i) ==
  LET kids == Kids[KeyOf[i]] IN
  \E n \in DOMAIN kids : /\ kids[n] = i
                         /\ \A m \in 1..(n - 1) : phase[kids[m]] # "new"

\* _begin_delegation with a worker that can search.
Delegate(i) ==
  /\ phase[i] = "new" /\ NextToDelegate(i)
  /\ Emit(i, "routing")
  /\ phase' = [phase EXCEPT ![i] = "routing"]
  /\ UNCHANGED <<now, restarts>>

\* _begin_delegation without one: the child fails before it was routed.
Reject(i) ==
  /\ phase[i] = "new" /\ NextToDelegate(i)
  /\ Emit(i, "failed")
  /\ phase' = [phase EXCEPT ![i] = "done"]
  /\ UNCHANGED <<now, restarts>>

\* _mark_delegation_searching, once the whole turn has been delegated.
Searching(i) ==
  /\ phase[i] = "routing"
  /\ \A j \in Siblings(i) : phase[j] # "new"
  /\ Emit(i, "searching")
  /\ phase' = [phase EXCEPT ![i] = "searching"]
  /\ UNCHANGED <<now, restarts>>

\* The search is retained past its timeout.
Retain(i) ==
  /\ phase[i] = "searching"
  /\ Emit(i, "background")
  /\ phase' = [phase EXCEPT ![i] = "background"]
  /\ UNCHANGED <<now, restarts>>

\* The epilogue's status, or the late commit's.
Settle(i, s) ==
  /\ phase[i] \in {"searching", "background"}
  /\ Emit(i, s)
  /\ phase' = [phase EXCEPT ![i] = "done"]
  /\ UNCHANGED <<now, restarts>>

SweepAll(l, swept, s) ==
  FoldLeft(LAMBDA acc, i : SetChild(acc, i, s, now), Start(l), swept)

\* terminalize_children: the turn ended mid-flight, cancelled or failed.
Sweep(k, s) ==
  LET swept == SelectSeq(Kids[k], LAMBDA i : phase[i] # "new") IN
  /\ \E i \in ToSet(swept) : phase[i] # "done"
  /\ Commit(SweepAll(ledger, swept, s))
  /\ phase' = [i \in Items |-> IF KeyOf[i] = k THEN "done" ELSE phase[i]]
  /\ UNCHANGED <<now, restarts>>

Tick ==
  /\ now < MaxTime
  /\ now' = now + 1
  /\ UNCHANGED <<ledger, phase, sent, restarts>>

Expired(l, t) ==
  {k \in Keys : ExpiryStamp(l, k) # Never /\ t - ExpiryStamp(l, k) >= TTL}

PruneExpired(l, t) ==
  FoldLeft(LAMBDA acc, k : IF k \in Expired(l, t) THEN Forget(acc, k) ELSE acc,
           l, l.order)

\* work_status_snapshot: a projection prunes what has expired.
Snapshot ==
  /\ Expired(ledger, now) # {}
  /\ ledger' = PruneExpired(ledger, now)
  /\ UNCHANGED <<now, phase, sent, restarts>>

\* SessionState.from_snapshot: only the parents cross the wire.  Turns whose
\* record did not cross are gone; the others may still report.
Restore ==
  LET l == PruneExpired(ledger, now) IN
  /\ restarts < MaxRestarts
  /\ restarts' = restarts + 1
  /\ ledger' = [Fresh EXCEPT
        !.parent = l.parent, !.order = l.order,
        !.seq = [k \in Keys |-> IF l.parent[k] = "none" THEN 0 ELSE l.seq[k]],
        !.terminalAt = [k \in Keys |-> IF l.parent[k] \in Terminal THEN now ELSE Never],
        !.nonauth = ToSet(l.order),
        !.restoredAt = [k \in Keys |-> IF l.parent[k] = "none" THEN Never ELSE now]]
  /\ phase' = [i \in Items |->
                 IF \/ l.parent[KeyOf[i]] # "none"
                    \/ \A j \in Siblings(i) : phase[j] = "new"
                 THEN phase[i] ELSE "done"]
  /\ UNCHANGED <<now, sent>>

Next ==
  \/ \E i \in Items : Delegate(i) \/ Reject(i) \/ Searching(i) \/ Retain(i)
  \/ \E i \in Items, s \in Terminal : Settle(i, s)
  \/ \E k \in Keys, s \in {"failed", "cancelled"} : Sweep(k, s)
  \/ Tick
  \/ Snapshot
  \/ Restore

Spec == Init /\ [][Next]_vars

-----------------------------------------------------------------------------
Live(l, k) == l.parent[k] \notin Terminal \cup {"none"} /\ k \notin l.nonauth

(* Types. *)
TypeOK ==
  /\ ledger.child \in [Items -> States \cup {"none"}]
  /\ ledger.parent \in [Keys -> States \cup {"none"}]
  /\ ToSet(ledger.order) \subseteq Keys
  /\ ledger.terminalAt \in [Keys -> Never..MaxTime]
  /\ ledger.restoredAt \in [Keys -> Never..MaxTime]
  /\ ledger.seq \in [Keys -> Nat]
  /\ ledger.tombs \subseteq Keys /\ ledger.nonauth \subseteq Keys
  /\ now \in 0..MaxTime /\ restarts \in 0..MaxRestarts
  /\ phase \in [Items -> {"new", "routing", "searching", "background", "done"}]

(* What a browser has been told is final: once a terminal status of a key  *)
(* was emitted nothing follows it, whatever was pruned or evicted since    *)
(* (_work_status_terminal_keys); and the event_sequence of a key strictly  *)
(* increases over the session: the counter outlives the record it counts.  *)
TerminalIsFinal ==
  \A k \in Keys : \A m, n \in DOMAIN sent[k] :
     m < n => sent[k][m].state \notin Terminal /\ sent[k][m].seq < sent[k][n].seq

(* No turn is stranded: once every item of a turn has settled, the last    *)
(* status a browser was sent for it is a terminal one.  A live record is   *)
(* never evicted, and a sweep reaches every child it remembers.            *)
SettledTurnIsFinal ==
  \A k \in Keys :
     /\ \A i \in ToSet(Kids[k]) : phase[i] = "done"
     /\ sent[k] # <<>>
     /\ k \notin ledger.nonauth
     => Last(sent[k]).state \in Terminal

(* result_ready is never announced for a turn with a sibling still at      *)
(* work, not even from the partial child set of a restored key.            *)
ReadyMeansDone ==
  \A k \in Keys :
     (sent[k] # <<>> /\ Last(sent[k]).state = "result_ready")
        => \A i \in ToSet(Kids[k]) : phase[i] = "done"

-----------------------------------------------------------------------------
(* What a comment, a document or a test says, and the code does not do. *)

(* shared/protocol.md on the parent record: `routing` while any child is   *)
(* routing.                                                                *)
RoutingWhileAnyRouting ==
  \A i \in Items :
     LET k == KeyOf[i] IN
     (ledger.child[i] = "routing" /\ ledger.parent[k] # "none" /\ k \notin ledger.nonauth)
        => ledger.parent[k] = "routing"
=============================================================================
