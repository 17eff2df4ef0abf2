---------------------------- MODULE TurnAckLedger ----------------------------
(***************************************************************************)
(* The early acks of delegated turns (server/turn_ack_ledger.py) on the    *)
(* scheduler of one connection (SpeechScheduler).  A turn's ack is latched *)
(* and queued when the work is delegated; an admission chain then tries a  *)
(* bounded number of times to have it spoken.  The turn handlers, a cancel *)
(* or the end of the connection retract it.                                *)
(*                                                                         *)
(* A turn is named by its ack key.  Every ack the code enqueues, the       *)
(* requeue of a failed one included, is an item of its own, so the items   *)
(* bound the number of emissions and of chains.                            *)
(***************************************************************************)
EXTENDS SpeechScheduler

CONSTANTS MaxAttempts,         \* _ACK_ADMISSION_MAX_ATTEMPTS
          MaxGenerationTurns   \* _MAX_ACK_GENERATION_TURNS

ASSUME LedgerLimits == {MaxAttempts, MaxGenerationTurns} \subseteq Nat \ {0}

VARIABLES
    phase,       \* a turn's handler: new, tick, waiting, open or over
    latch,       \* _ack_emitted_turns
    claims,      \* _ack_generation_sequence
    generation,  \* _ack_admission_generation; 0 is no entry
    chains,      \* the pending _ack_admission_tasks
    spoken,      \* history: acks whose speak returned
    abandoned    \* history: acks given up after the last attempt

ledgerVars == <<phase, latch, claims, generation, chains, spoken, abandoned>>
allVars == <<vars, ledgerVars>>

AckTurns == {KeyOf[i] : i \in Acks(Items)}

\* One coroutine: about to call start_next, suspended in its speak, or asleep
\* before the next attempt.  ack is the item it last saw to.
Chain(t, g, n, place, i) == [turn |-> t, gen |-> g, attempt |-> n, at |-> place, ack |-> i]

\* on_ack_terminal, for the acks the scheduler dropped or swept in this step.
OnAckTerminal == latch' = latch \ {KeyOf[i] : i \in settled' \ settled}

-----------------------------------------------------------------------------
(* Admission generations *)

\* _claim_ack_admission_generation: a claim makes its turn the newest entry, so
\* the oldest entry is the one with the least number.
Claim(t) ==
    LET g == [generation EXCEPT ![t] = claims + 1]
        entries == {u \in AckTurns : g[u] # 0}
        oldest == CHOOSE u \in entries : \A v \in entries : g[u] <= g[v]
    IN  /\ claims' = claims + 1
        /\ generation' = IF Cardinality(entries) > MaxGenerationTurns
                         THEN [g EXCEPT ![oldest] = 0] ELSE g

\* Slip: an evicted entry counts as superseded.
StaleIfEvicted(c) == generation[c.turn] # c.gen

\* A newer chain holds the turn; no entry means evicted, not superseded.
Stale(c) == generation[c.turn] \notin {0, c.gen}

-----------------------------------------------------------------------------
(* The turn handlers *)

LedgerInit ==
    /\ Init
    /\ phase = [t \in AckTurns |-> "new"]
    /\ latch = {} /\ claims = 0
    /\ generation = [t \in AckTurns |-> 0]
    /\ chains = {} /\ spoken = {} /\ abandoned = {}

\* emit_early_ack gets past its checks.
Eligible(t) == t \notin latch /\ tts /\ Acceptable

\* enqueue_ack, the latch and the first admission attempt of a fresh chain.
EnqueueLatchSchedule(i) ==
    LET t == KeyOf[i]
    IN  /\ EnqueueAck(i)
        /\ latch' = latch \cup {t}
        /\ Claim(t)
        /\ chains' = chains \cup {Chain(t, claims + 1, 1, "admit", i)}

\* Pending-dialogue and multi-intent turns: once per delegated child.
EmitAtDecision(i) ==
    LET t == KeyOf[i]
    IN  /\ phase[t] \in {"new", "open"}
        /\ Eligible(t)
        /\ EnqueueLatchSchedule(i)
        /\ phase' = [phase EXCEPT ![t] = "open"]
        /\ UNCHANGED <<spoken, abandoned>>

\* Single-intent turns: the checks, then one tick in which the search may end.
CheckDispatched(t) ==
    /\ phase[t] = "new"
    /\ Eligible(t)
    /\ phase' = [phase EXCEPT ![t] = "tick"]
    /\ UNCHANGED <<vars, latch, claims, generation, chains, spoken, abandoned>>

\* The lane is not looked at again after the tick.
EmitAfterTick(i) ==
    /\ phase[KeyOf[i]] = "tick"
    /\ EnqueueLatchSchedule(i)
    /\ phase' = [phase EXCEPT ![KeyOf[i]] = "waiting"]
    /\ UNCHANGED <<spoken, abandoned>>

\* Slip: the queued ack goes, the latch stays.
DiscardOnly(t) == RemoveQueuedAck(t) /\ latch' = latch

\* settle_turn_ack without cancel_admitted.
SettleTurnAck(t) == RemoveQueuedAck(t) /\ latch' = latch \ {t}

\* The handler's end: its epilogue, its exception path, or the late commit of a
\* retained child.  A turn that accepted nothing also retracts an admitted ack.
EndTurn(t) ==
    /\ phase[t] # "over"
    /\ phase' = [phase EXCEPT ![t] = "over"]
    /\ \/ SettleTurnAck(t) /\ DiscardQueuedAck(t)
       \/ phase[t] = "open" /\ Cancel({t}) /\ latch' = latch \ {t}
    /\ UNCHANGED <<claims, generation, chains, spoken, abandoned>>

\* A late commit after a reconnect does not reach for the retired scheduler.
EndTurnElsewhere(t) ==
    /\ phase[t] \in {"waiting", "open"}
    /\ epoch # "current"
    /\ phase' = [phase EXCEPT ![t] = "over"]
    /\ latch' = latch \ {t}
    /\ UNCHANGED <<vars, claims, generation, chains, spoken, abandoned>>

\* cancel_turn_or_child: the sole remaining child of a latched turn.
CancelSoleChild(t) ==
    /\ t \in latch
    /\ Cancel({t})
    /\ latch' = latch \ {t}
    /\ UNCHANGED <<phase, claims, generation, chains, spoken, abandoned>>

\* cancel_turn_or_child: everything.
CancelAll ==
    /\ Cancel(Keys)
    /\ latch' = latch \ {KeyOf[i] : i \in Acks(Queued \cup Paused \cup ({active} \ {None}))}
    /\ UNCHANGED <<phase, claims, generation, chains, spoken, abandoned>>

-----------------------------------------------------------------------------
(* An admission chain *)

\* The turn still wants its ack and the lane is still its own.
ChainLive(c) == c.turn \in latch /\ Acceptable

Become(c, D) == chains' = (chains \ {c}) \cup D

\* A failed submission has used its item up; a busy slot has not.
SleepBeforeRetry(c, requeue) ==
    IF requeue
    THEN \E j \in Acks(Items) \ used :
            /\ KeyOf[j] = c.turn
            /\ used' = used \cup {j}
            /\ queue' = Insert(queue, j)
            /\ Become(c, {[c EXCEPT !.at = "sleep", !.ack = j]})
    ELSE Become(c, {[c EXCEPT !.at = "sleep"]}) /\ UNCHANGED <<used, queue>>

\* _retry_or_abandon.
RetryOrAbandon(c, requeue) ==
    \/ /\ Stale(c)
       /\ Become(c, {})
       /\ UNCHANGED <<used, queue, settled, latch, abandoned>>
    \/ /\ ~Stale(c)
       /\ ~ChainLive(c) \/ c.attempt >= MaxAttempts
       /\ SettleTurnAck(c.turn)
       /\ Become(c, {})
       /\ abandoned' = IF ChainLive(c) THEN abandoned \cup {c.ack} ELSE abandoned
       /\ UNCHANGED used
    \/ /\ ~Stale(c)
       /\ ChainLive(c) /\ c.attempt < MaxAttempts
       /\ SleepBeforeRetry(c, requeue)
       /\ UNCHANGED <<settled, latch, abandoned>>

\* The turn's queued ack can be admitted now.
Admissible(t) ==
    LET mine == {n \in DOMAIN queue : KeyOf[queue[n]] = t}
    IN  /\ active = None /\ slot = None
        /\ mine # {} /\ ~Rejected(queue[Min(mine)])

\* admit: a superseded chain ends before it touches the scheduler; start_next
\* returns None for a busy slot, an empty queue and a rejected ack alike.
ChainAdmit(c) ==
    /\ c.at = "admit"
    /\ IF ~Stale(c) /\ Admissible(c.turn)
       THEN /\ AdmitAck(c.turn)
            /\ Become(c, {[c EXCEPT !.at = "speak", !.ack = active']})
            /\ UNCHANGED <<latch, abandoned>>
       ELSE /\ RetryOrAbandon(c, FALSE)
            /\ UNCHANGED <<leaseVars, paused, call, advances, discarded, record,
                           admitted, slotVars, notify, closed, hostVars>>
    /\ UNCHANGED <<phase, claims, generation, spoken>>

ChainSpeaks(c) ==
    /\ c.at = "speak"
    /\ SpeakReturns(c.ack)
    /\ Become(c, {})
    /\ spoken' = spoken \cup {c.ack}
    /\ UNCHANGED <<phase, latch, claims, generation, abandoned>>

ChainFails(c) ==
    /\ c.at = "speak"
    /\ ReleaseSubmission(c.ack)
    /\ RetryOrAbandon(c, TRUE)
    /\ UNCHANGED <<phase, claims, generation, spoken>>

\* Slip: the attempts are not counted.
RetryUncounted(c) == Become(c, {[c EXCEPT !.at = "admit"]})
RetryCounted(c) == Become(c, {[c EXCEPT !.at = "admit", !.attempt = @ + 1]})

\* retry_after_delay.
ChainWakes(c) ==
    /\ c.at = "sleep"
    /\ RetryCounted(c)
    /\ UNCHANGED <<vars, phase, latch, claims, generation, spoken, abandoned>>

-----------------------------------------------------------------------------
(* Specification *)

Owned(i) == \E c \in chains : c.at = "speak" /\ c.ack = i

\* The scheduler without its ledger, for calls no chain waits for.
SchedulerStep ==
    /\ \/ \E i \in Items :
             \/ CommitAndSpeak(i) \/ ResumeAck(i)
             \/ SpeakRaises(i) \/ Advance(i) \/ Notify(i)
             \/ FailRelease(i) /\ ~Owned(i)
       \/ \E i, j \in Items : Resume(i, j)
       \/ Pause
       \/ \E k \in Keys \ AckTurns : Cancel({k}) \/ DiscardQueuedNotice(k)
       \/ Provider \/ Settle \/ Connection
    /\ OnAckTerminal
    /\ UNCHANGED <<phase, claims, generation, chains, spoken, abandoned>>

\* Speech submitted by another caller of start_next: a turn handler, on_terminal
\* or a queue advance.
OtherSpeaks(i) ==
    /\ ~Owned(i)
    /\ SpeakReturns(i)
    /\ spoken' = spoken \cup Acks({i})
    /\ UNCHANGED <<phase, latch, claims, generation, chains, abandoned>>

Handlers ==
    \/ \E i \in Acks(Items) : EmitAtDecision(i) \/ EmitAfterTick(i)
    \/ \E t \in AckTurns :
          CheckDispatched(t) \/ EndTurn(t) \/ EndTurnElsewhere(t) \/ CancelSoleChild(t)
    \/ CancelAll

ChainStep(c) == ChainAdmit(c) \/ ChainSpeaks(c) \/ ChainFails(c) \/ ChainWakes(c)

LedgerNext ==
    \/ Handlers
    \/ \E c \in chains : ChainStep(c)
    \/ \E i \in Items : OtherSpeaks(i)
    \/ SchedulerStep

LedgerSpec == LedgerInit /\ [][LedgerNext]_allVars

\* Scheduled coroutines and sleeps end and an ack's speak returns or raises.
\* Nothing is assumed of the slot, the provider or the turn handlers.
ChainFairness ==
    /\ \A t \in AckTurns :
          WF_allVars(\E c \in chains : c.turn = t /\ (ChainAdmit(c) \/ ChainWakes(c)))
    /\ WF_allVars(\E c \in chains : ChainSpeaks(c) \/ ChainFails(c)
                  \/ (c.at = "speak" /\ SpeakRaises(c.ack) /\ SchedulerStep))

FairLedgerSpec == LedgerSpec /\ ChainFairness

-----------------------------------------------------------------------------
(* Properties *)

\* The map of generations stays within its limit, whatever turns come and go.
LedgerTypeOK ==
    /\ phase \in [AckTurns -> {"new", "tick", "waiting", "open", "over"}]
    /\ latch \subseteq AckTurns
    /\ claims \in Nat
    /\ generation \in [AckTurns -> 0 .. claims]
    /\ Cardinality({t \in AckTurns : generation[t] # 0}) <= MaxGenerationTurns
    /\ chains \subseteq [turn : AckTurns, gen : 1 .. claims, attempt : 1 .. MaxAttempts,
                         at : {"admit", "speak", "sleep"}, ack : Acks(Items)]
    /\ spoken \subseteq Acks(Items) /\ abandoned \subseteq Acks(Items)

\* An ack of the turn was admitted, paused and then dropped: whoever drops it
\* clears the latch under a newer ack of that turn.
PausedAckDropped(t) == \E p \in admitted \cap settled : KeyOf[p] = t

\* A queued ack is never orphaned: a chain that will not find itself superseded
\* still looks after it, evictions from the map of generations included.  And while
\* the map knows the turn it is the turn's only one, whatever busy slots, failed
\* submissions, abandoned chains and siblings do.  The one exception is a turn of
\* which a paused ack was dropped.
QueuedAckHasChain ==
    \A i \in Acks(Queued) :
        LET t == KeyOf[i]
        IN  \/ /\ \E c \in chains : c.turn = t /\ ~Stale(c)
               /\ generation[t] # 0 => \A j \in Acks(Queued) : KeyOf[j] = t => j = i
            \/ PausedAckDropped(t)

\* An ack is not spoken after its turn's result: once the handler has settled the
\* turn no attempt, in flight or asleep, puts an ack back on a live lane.
NoAckAfterResult ==
    \A i \in Acks(Queued) : phase[KeyOf[i]] = "over" => discarded

\* A queued ack leaves the queue within the bounded attempts of its chain, even
\* when the slot is never freed and the turn never ends.
AckBounded == \A i \in Acks(Items) : i \in Queued ~> i \notin Queued

-----------------------------------------------------------------------------
(* What a comment says, and the code does not do. *)

\* "Eviction cannot resurrect the generation collision this dict exists to prevent"
\* (_MAX_ACK_GENERATION_TURNS): a superseded chain queues no second ack of its turn.
OneQueuedAckPerTurn ==
    \A i, j \in Acks(Queued) : KeyOf[i] = KeyOf[j] => i = j \/ PausedAckDropped(KeyOf[i])

\* "the abandoned ack was discarded, never spoken" (_schedule_ack_admission).
AbandonedNeverSpoken == abandoned \cap spoken = {}
=============================================================================
