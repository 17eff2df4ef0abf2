--------------------------- MODULE SpeechLifecycle ---------------------------
(***************************************************************************)
(* The connection-scoped speech lifecycle coordinator and its two frame    *)
(* adapters (server/speech_lifecycle.py).                                  *)
(*                                                                         *)
(* The server is one asyncio event loop.  A step below is the code between *)
(* two suspension points: a synchronous method, a frame handler up to its  *)
(* first await, the firing of a timer, or one segment of a scheduled       *)
(* coroutine.  A timer that fires only schedules its coroutine, so a later *)
(* cancellation of that timer no longer stops it.                          *)
(*                                                                         *)
(* Abstractions.  A token stands for the generation and for its utterance  *)
(* id and TTS context id: enqueue mints an utterance id per item, an item  *)
(* is admitted at most once and the TTS adapters use the utterance id as   *)
(* the context id, so the three are in bijection.  Deadlines are untimed:  *)
(* an armed timer may fire at any moment.  PCM durations only move a       *)
(* deadline and are left out.                                              *)
(***************************************************************************)
EXTENDS Naturals, Sequences, FiniteSets

CONSTANTS Tokens,          \* generation tokens; one is used per admission
          None,            \* Python's None where a token is expected
          TombstoneLimit,  \* context_tombstone_limit
          MaxTasks         \* bound: coroutines alive at once

ASSUME NoneAssumption == None \notin Tokens
ASSUME LimitAssumption == TombstoneLimit \in Nat

VARIABLES
    gen,            \* _generations: "absent" phase for a token not in the dict
    slotToken,      \* _slot_token
    contextTokens,  \* _context_tokens: contexts bound to their own token
    tombstones,     \* _context_tombstones, oldest first
    timers,         \* _timer_handles: which deadline is armed for a token
    tasks,          \* coroutines scheduled or suspended, internal or the caller's
    closed,         \* _connection_closed
    pendingToken,   \* TransportSpeechLifecycleProcessor._pending_token
    capturedToken,  \* GenericProviderErrorObserver._captured_token
    leased,         \* tokens whose lease SpeechScheduler._active still holds
    used,           \* tokens admitted so far
    outcome,        \* history: disposition a generation was terminalized with
    reports         \* history: number of on_terminal calls per token

adapterVars == <<pendingToken, capturedToken>>
historyVars == <<outcome, reports>>
taskFrame == <<closed, pendingToken, capturedToken, used>>  \* no coroutine writes these
vars == <<gen, slotToken, contextTokens, tombstones, timers, tasks, closed,
          pendingToken, capturedToken, leased, used, outcome, reports>>

Phases == {"handed_to_tts", "synthesizing", "synthesis_ended",
           "transport_started", "transport_stopped"}
Dispositions == {"paused", "interrupted", "delivery_unknown", "delivery_completed"}
Timers == {"start", "drain", "interruption", "flush"}

\* Coroutines by what they run.  "unknown" and "error" are _begin_delivery_unknown
\* from a timer and from a provider error; "start_next" is the admitting
\* scheduler call, which reports its own submission failure the same way.
Kinds == {"unknown", "error", "start_next", "interruption", "flush", "finalize",
          "stop", "notify"}

\* Coroutines of the caller, which connection_closed does not cancel.
CallerKinds == {"error", "start_next"}

\* Where a coroutine is: in speak (start_next), about to run, in dispatch_cleanup,
\* in dispatch_teardown, or before start_next's release_generation.
Places == {"speak", "ready", "cleanup", "teardown", "release"}

Generation == [phase : Phases \cup {"absent"}, disposition : Dispositions \cup {"none"},
               bound : BOOLEAN, audio : BOOLEAN, cleanup : BOOLEAN,
               teardown : BOOLEAN, tombstoned : BOOLEAN]

Absent == [phase |-> "absent", disposition |-> "none", bound |-> FALSE,
           audio |-> FALSE, cleanup |-> FALSE, teardown |-> FALSE,
           tombstoned |-> FALSE]

Live(t) == gen[t].phase # "absent"

\* The bound on coroutines alive at once.
CanSpawn == Cardinality(tasks) < MaxTasks

Task(k, t, p) == [kind |-> k, token |-> t, at |-> p]
TaskSet == [kind : Kinds, token : Tokens, at : Places]

Init ==
    /\ gen = [t \in Tokens |-> Absent]
    /\ slotToken = None
    /\ contextTokens = {}
    /\ tombstones = <<>>
    /\ timers = [t \in Tokens |-> "none"]
    /\ tasks = {}
    /\ closed = FALSE
    /\ pendingToken = None
    /\ capturedToken = None
    /\ leased = {}
    /\ used = {}
    /\ outcome = [t \in Tokens |-> "none"]
    /\ reports = [t \in Tokens |-> 0]

-----------------------------------------------------------------------------
(* Terminalization *)

Remembered(s) == {s[i] : i \in DOMAIN s}

\* The tombstone set keeps the newest TombstoneLimit contexts.
Remember(s, t) ==
    IF TombstoneLimit = 0 THEN s
    ELSE IF Len(s) < TombstoneLimit THEN Append(s, t)
    ELSE Append(Tail(s), t)

\* The first disposition written wins.  Slip: the last one does.
OrLast(d, default) == default
Or(d, default) == IF d = "none" THEN default ELSE d

\* _terminalize_state: reap the generation and free the slot it occupies.
TerminalizeState(t, d) ==
    /\ gen' = [gen EXCEPT ![t] = Absent]
    /\ outcome' = [outcome EXCEPT ![t] = Or(gen[t].disposition, d)]
    /\ timers' = [timers EXCEPT ![t] = "none"]
    /\ slotToken' = IF slotToken = t THEN None ELSE slotToken
    /\ contextTokens' = IF gen[t].bound THEN contextTokens \ {t} ELSE contextTokens
    /\ tombstones' = IF gen[t].bound THEN Remember(tombstones, t) ELSE tombstones

\* The call of on_terminal.  The host releases the scheduler's lease in it
\* when it is still held (scheduler.delivery_unknown).
OnTerminal(t) ==
    /\ reports' = [reports EXCEPT ![t] = @ + 1]
    /\ leased' = leased \ {t}

\* Slip: the once-only check is missing.
TerminalizeAgain(t, d) == TerminalizeState(t, d) /\ OnTerminal(t)

\* _terminalize: a no-op for a generation that is already gone.
Terminalize(t, d) ==
    \/ /\ Live(t)
       /\ TerminalizeState(t, d)
       /\ OnTerminal(t)
    \/ /\ ~Live(t)
       /\ UNCHANGED <<gen, slotToken, contextTokens, tombstones, timers, leased,
                      historyVars>>

-----------------------------------------------------------------------------
(* Scheduler calls *)

\* mark_handed_to_tts arms the start deadline.  Slip: it does not.
MarkHandedUnarmed(t) == UNCHANGED timers
MarkHandedToTts(t) == timers' = [timers EXCEPT ![t] = "start"]

\* start_next: try_admit and mark_handed_to_tts run without a suspension between
\* them, so the start deadline is armed in the admitting step; the coroutine
\* then awaits speak, which queues the marker and the speak frame.
TryAdmit(t) ==
    /\ CanSpawn
    /\ ~closed
    /\ slotToken = None
    /\ t \notin used
    /\ gen' = [gen EXCEPT ![t] = [Absent EXCEPT !.phase = "handed_to_tts"]]
    /\ slotToken' = t
    /\ MarkHandedToTts(t)
    /\ used' = used \cup {t}
    /\ leased' = leased \cup {t}
    /\ tasks' = tasks \cup {Task("start_next", t, "speak")}
    /\ UNCHANGED <<contextTokens, tombstones, closed, adapterVars, historyVars>>

\* The deadline record_interruption leaves armed.  Slip: none.
NoInterruptionTimer(t) == "none"
InterruptionTimer(t) == IF gen[t].bound THEN "interruption" ELSE "none"

\* record_interruption: barge-in, cancel or pause of the leased utterance.  The
\* scheduler drops its lease in the same step and signals a stop, which queues
\* an interruption and a flush-ack frame.  Without a bound context no deadline
\* is armed and the finalizing coroutine is scheduled instead.
RecordInterruption(t, d) ==
    /\ CanSpawn
    /\ Live(t)
    /\ t \in leased
    /\ gen' = [gen EXCEPT ![t].disposition = d, ![t].tombstoned = TRUE]
    /\ timers' = [timers EXCEPT ![t] = InterruptionTimer(t)]
    /\ tasks' = IF gen[t].bound THEN tasks ELSE tasks \cup {Task("finalize", t, "ready")}
    /\ leased' = leased \ {t}
    /\ UNCHANGED <<slotToken, contextTokens, tombstones, closed, adapterVars, used,
                   historyVars>>

\* release_generation: the scheduler settled its lease itself; on_terminal is
\* called from a scheduled coroutine.
ReleaseGeneration(t, d) ==
    /\ CanSpawn
    /\ t \in leased
    /\ leased' = leased \ {t}
    /\ \/ /\ Live(t)
          /\ TerminalizeState(t, d)
          /\ tasks' = tasks \cup {Task("notify", t, "ready")}
       \/ /\ ~Live(t)
          /\ UNCHANGED <<gen, slotToken, contextTokens, tombstones, timers, tasks, outcome>>
    /\ UNCHANGED <<closed, adapterVars, used, reports>>

\* speak returned, or raised: start_next's except branch then goes through
\* provider_error and releases the generation itself.
SpeakReturns(t) ==
    /\ Task("start_next", t, "speak") \in tasks
    /\ tasks' = tasks \ {Task("start_next", t, "speak")}
    /\ UNCHANGED <<gen, slotToken, contextTokens, tombstones, timers, closed,
                   adapterVars, leased, used, historyVars>>

SpeakRaises(t) ==
    /\ Task("start_next", t, "speak") \in tasks
    /\ tasks' = (tasks \ {Task("start_next", t, "speak")})
                \cup {Task("start_next", t, "ready")}
    /\ UNCHANGED <<gen, slotToken, contextTokens, tombstones, timers, closed,
                   adapterVars, leased, used, historyVars>>

-----------------------------------------------------------------------------
(* Frame adapters *)

\* The marker crosses the pre-TTS observer, later the post-TTS processor.
MarkerAtObserver(t) ==
    /\ t \in used
    /\ capturedToken' = t
    /\ UNCHANGED <<gen, slotToken, contextTokens, tombstones, timers, tasks, closed,
                   pendingToken, leased, used, historyVars>>

MarkerAtProcessor(t) ==
    /\ t \in used
    /\ pendingToken' = t
    /\ UNCHANGED <<gen, slotToken, contextTokens, tombstones, timers, tasks, closed,
                   capturedToken, leased, used, historyVars>>

\* bind_context(t, c): only the expected marker token takes the context.
BindContext(t, c) ==
    /\ Live(t)
    /\ ~gen[t].tombstoned
    /\ c = t
    /\ IF gen[t].bound THEN c \in contextTokens ELSE c \notin Remembered(tombstones)

\* Slip: tombstoned generations still accept frames.
AcceptsTombstoned(c) == c \in contextTokens /\ Live(c)

\* The guard shared by on_tts_started, on_tts_audio and on_tts_stopped.  A frame
\* it refuses is dropped before output and changes nothing.
Accepts(c) ==
    /\ c \in contextTokens
    /\ Live(c)
    /\ ~gen[c].tombstoned

\* TTSStartedFrame: bind the context when a marker is pending, then
\* on_tts_started cancels the start deadline.
TtsStartedFrame(c) ==
    LET binds == pendingToken # None /\ BindContext(pendingToken, c)
    IN  /\ binds \/ Accepts(c)
        /\ pendingToken' = IF binds THEN None ELSE pendingToken
        /\ contextTokens' = contextTokens \cup {c}
        /\ gen' = [gen EXCEPT ![c].bound = TRUE, ![c].phase = "synthesizing"]
        /\ timers' = [timers EXCEPT ![c] = "none"]
        /\ UNCHANGED <<slotToken, tombstones, tasks, closed, capturedToken,
                       leased, used, historyVars>>

\* TTSAudioRawFrame: accepted audio is pushed to transport.output().
TtsAudioFrame(c) ==
    /\ Accepts(c)
    /\ gen' = [gen EXCEPT ![c].audio = TRUE]
    /\ UNCHANGED <<slotToken, contextTokens, tombstones, timers, tasks, closed,
                   adapterVars, leased, used, historyVars>>

\* TTSStoppedFrame: synthesis ended, the drain deadline is armed.
TtsStoppedFrame(c) ==
    /\ Accepts(c)
    /\ gen' = [gen EXCEPT ![c].phase = "synthesis_ended"]
    /\ timers' = [timers EXCEPT ![c] = "drain"]
    /\ UNCHANGED <<slotToken, contextTokens, tombstones, tasks, closed, adapterVars,
                   leased, used, historyVars>>

\* The fieldless bot frames apply to whatever generation occupies the slot.
Occupied == slotToken # None /\ Live(slotToken)

BotStartedFrame ==
    /\ Occupied
    /\ gen' = [gen EXCEPT ![slotToken].phase = "transport_started"]
    /\ UNCHANGED <<slotToken, contextTokens, tombstones, timers, tasks, closed,
                   adapterVars, leased, used, historyVars>>

BotStoppedFrame ==
    /\ Occupied
    /\ CanSpawn
    /\ gen' = [gen EXCEPT ![slotToken].phase = "transport_stopped"]
    /\ timers' = [timers EXCEPT ![slotToken] = "none"]
    /\ tasks' = tasks \cup {Task("stop", slotToken, "ready")}
    /\ UNCHANGED <<slotToken, contextTokens, tombstones, closed, adapterVars,
                   leased, used, historyVars>>

\* An ErrorFrame of the TTS processor is attributed to the captured token; the
\* handler clears the capture when provider_error returns, and no marker can
\* cross the observer before that (one frame at a time).
ErrorFrame ==
    /\ CanSpawn
    /\ capturedToken # None
    /\ capturedToken' = None
    /\ tasks' = tasks \cup {Task("error", capturedToken, "ready")}
    /\ UNCHANGED <<gen, slotToken, contextTokens, tombstones, timers, closed,
                   pendingToken, leased, used, historyVars>>

\* A context-bearing provider error reported by the TTS adapter.
ProviderErrorEvent(c) ==
    /\ CanSpawn
    /\ c \in contextTokens
    /\ tasks' = tasks \cup {Task("error", c, "ready")}
    /\ UNCHANGED <<gen, slotToken, contextTokens, tombstones, timers, closed,
                   adapterVars, leased, used, historyVars>>

\* Slip: the flush-ack releases a slot whose audio is already in output.
FlushReleasesAudio(t) == Live(t) /\ (gen[t].cleanup \/ gen[t].tombstoned) /\ ~gen[t].teardown

\* SpeechGenerationFlushAckFrame: the barrier traversed TTS.  It releases the
\* slot only before any audio was submitted and before a teardown began, and is
\* ignored otherwise.  A flush-ack is queued by every interruption and every
\* cleanup dispatch, so one can be under way exactly when a generation is
\* tombstoned or cleanup_pending; it may also never arrive.
FlushReleases(t) ==
    /\ Live(t)
    /\ gen[t].cleanup \/ gen[t].tombstoned
    /\ ~gen[t].audio
    /\ ~gen[t].teardown

FlushAckFrame(t) ==
    /\ FlushReleases(t)
    /\ Terminalize(t, "delivery_unknown")
    /\ UNCHANGED <<tasks, taskFrame>>

-----------------------------------------------------------------------------
(* Timers and coroutines *)

\* The coroutine of a deadline: the start and drain deadlines share one.
TimerTask(timer) == IF timer \in {"start", "drain"} THEN "unknown" ELSE timer

\* The timer callback only schedules the deadline's coroutine.
TimerFires(t) ==
    /\ CanSpawn
    /\ timers[t] # "none"
    /\ timers' = [timers EXCEPT ![t] = "none"]
    /\ tasks' = tasks \cup {Task(TimerTask(timers[t]), t, "ready")}
    /\ UNCHANGED <<gen, slotToken, contextTokens, tombstones, closed, adapterVars,
                   leased, used, historyVars>>

\* A coroutine moves on, or ends; start_next still has its release to do.
MovesTo(k, t, p, q) == tasks' = (tasks \ {Task(k, t, p)}) \cup {Task(k, t, q)}
Ends(k, t, p) ==
    IF k = "start_next" THEN MovesTo(k, t, p, "release") ELSE tasks' = tasks \ {Task(k, t, p)}

\* _begin_cleanup with the generation record g written so far: mark it
\* cleanup_pending and suspend in dispatch_cleanup, once per generation.  The
\* dispatch queues an interruption and a flush-ack for the slot's token.
BeginCleanup(k, t, g) ==
    IF g.cleanup
    THEN /\ gen' = [gen EXCEPT ![t] = g]
         /\ Ends(k, t, "ready")
    ELSE /\ gen' = [gen EXCEPT ![t] = [g EXCEPT !.cleanup = TRUE]]
         /\ MovesTo(k, t, "ready", "cleanup")

\* _begin_delivery_unknown (start and drain deadlines, provider errors) and
\* _on_interruption_timeout, which keeps the recorded disposition.
BeginExit(k, t) ==
    /\ k \in {"unknown", "error", "start_next", "interruption"}
    /\ Task(k, t, "ready") \in tasks
    /\ \/ /\ Live(t)
          /\ BeginCleanup(k, t,
                IF k = "interruption" THEN gen[t]
                ELSE [gen[t] EXCEPT !.disposition = Or(@, "delivery_unknown"),
                                    !.tombstoned = TRUE])
       \/ /\ ~Live(t)
          /\ Ends(k, t, "ready")
          /\ UNCHANGED gen
    /\ UNCHANGED <<slotToken, contextTokens, tombstones, timers, leased, historyVars,
                   taskFrame>>

\* _request_teardown: at most once per generation; suspend in dispatch_teardown.
RequestTeardown(k, t, p) ==
    \/ /\ Live(t)
       /\ ~gen[t].teardown
       /\ gen' = [gen EXCEPT ![t].teardown = TRUE]
       /\ timers' = [timers EXCEPT ![t] = "none"]
       /\ MovesTo(k, t, p, "teardown")
    \/ /\ ~Live(t) \/ gen[t].teardown
       /\ Ends(k, t, p)
       /\ UNCHANGED <<gen, timers>>

\* _on_flush_ack_timeout.
FlushAckTimeout(t) ==
    /\ Task("flush", t, "ready") \in tasks
    /\ RequestTeardown("flush", t, "ready")
    /\ UNCHANGED <<slotToken, contextTokens, tombstones, leased, historyVars,
                   taskFrame>>

\* _finalize_uncontexted_interruption up to its dispatch_cleanup, which it makes
\* without marking the generation cleanup_pending.
BeginFinalize(t) ==
    /\ Task("finalize", t, "ready") \in tasks
    /\ \/ Live(t) /\ MovesTo("finalize", t, "ready", "cleanup")
       \/ ~Live(t) /\ Ends("finalize", t, "ready")
    /\ UNCHANGED <<gen, slotToken, contextTokens, tombstones, timers, leased,
                   historyVars, taskFrame>>

\* dispatch_cleanup raised: tear the lane down.
CleanupRaises(k, t) ==
    /\ Task(k, t, "cleanup") \in tasks
    /\ RequestTeardown(k, t, "cleanup")
    /\ UNCHANGED <<slotToken, contextTokens, tombstones, leased, historyVars,
                   taskFrame>>

\* dispatch_cleanup returned to _begin_cleanup, which looks the generation up
\* again: gone, or audio reached output meanwhile, or wait for the flush ack.
CleanupReturns(k, t) ==
    /\ k # "finalize"
    /\ Task(k, t, "cleanup") \in tasks
    /\ \/ /\ Live(t) => gen[t].audio
          /\ RequestTeardown(k, t, "cleanup")
       \/ /\ Live(t)
          /\ ~gen[t].audio
          /\ timers' = [timers EXCEPT ![t] = "flush"]
          /\ Ends(k, t, "cleanup")
          /\ UNCHANGED gen
    /\ UNCHANGED <<slotToken, contextTokens, tombstones, leased, historyVars,
                   taskFrame>>

\* dispatch_cleanup returned to _finalize_uncontexted_interruption.
FinalizeReturns(t) ==
    /\ Task("finalize", t, "cleanup") \in tasks
    /\ Terminalize(t, gen[t].disposition)
    /\ Ends("finalize", t, "cleanup")
    /\ UNCHANGED taskFrame

\* dispatch_teardown returned.  The host has disconnected the transport and
\* called teardown_complete; when it could not, the slot stays fenced.
TeardownReturns(k, t) ==
    /\ Task(k, t, "teardown") \in tasks
    /\ Terminalize(t, "delivery_unknown")
    /\ Ends(k, t, "teardown")
    /\ UNCHANGED taskFrame

TeardownRaises(k, t) ==
    /\ Task(k, t, "teardown") \in tasks
    /\ Ends(k, t, "teardown")
    /\ UNCHANGED <<gen, slotToken, contextTokens, tombstones, timers, leased,
                   historyVars, taskFrame>>

\* The coroutine on_transport_bot_stopped scheduled.
StopTerminalizes(t) ==
    /\ Task("stop", t, "ready") \in tasks
    /\ Terminalize(t, "delivery_unknown")
    /\ Ends("stop", t, "ready")
    /\ UNCHANGED taskFrame

\* The on_terminal call release_generation scheduled.
Notify(t) ==
    /\ Task("notify", t, "ready") \in tasks
    /\ OnTerminal(t)
    /\ Ends("notify", t, "ready")
    /\ UNCHANGED <<gen, slotToken, contextTokens, tombstones, timers, outcome,
                   taskFrame>>

\* start_next after provider_error: release_generation(notify=False), _release.
ReleaseSubmission(t) ==
    /\ Task("start_next", t, "release") \in tasks
    /\ tasks' = tasks \ {Task("start_next", t, "release")}
    /\ leased' = leased \ {t}
    /\ \/ Live(t) /\ TerminalizeState(t, "delivery_unknown")
       \/ ~Live(t) /\ UNCHANGED <<gen, slotToken, contextTokens, tombstones, timers, outcome>>
    /\ UNCHANGED <<reports, taskFrame>>

-----------------------------------------------------------------------------
\* connection_closed: cancel the coordinator's own coroutines, drop all state.
ConnectionClosed ==
    /\ ~closed
    /\ closed' = TRUE
    /\ gen' = [t \in Tokens |-> Absent]
    /\ slotToken' = None
    /\ contextTokens' = {}
    /\ tombstones' = <<>>
    /\ timers' = [t \in Tokens |-> "none"]
    /\ tasks' = {x \in tasks : x.kind \in CallerKinds}
    /\ UNCHANGED <<adapterVars, leased, used, historyVars>>

Scheduler(t) ==
    \/ TryAdmit(t)
    \/ \E d \in {"paused", "interrupted"} : RecordInterruption(t, d)
    \/ \E d \in {"delivery_unknown", "delivery_completed"} : ReleaseGeneration(t, d)

Frame(t) ==
    \/ MarkerAtObserver(t) \/ MarkerAtProcessor(t)
    \/ TtsStartedFrame(t) \/ TtsAudioFrame(t) \/ TtsStoppedFrame(t)
    \/ ProviderErrorEvent(t) \/ FlushAckFrame(t)

\* One segment of coroutine k of generation t.
RunTask(k, t) ==
    \/ k = "start_next" /\ (SpeakReturns(t) \/ SpeakRaises(t) \/ ReleaseSubmission(t))
    \/ k = "flush" /\ FlushAckTimeout(t)
    \/ k = "finalize" /\ (BeginFinalize(t) \/ FinalizeReturns(t))
    \/ k = "stop" /\ StopTerminalizes(t)
    \/ k = "notify" /\ Notify(t)
    \/ BeginExit(k, t)
    \/ CleanupReturns(k, t) \/ CleanupRaises(k, t)
    \/ TeardownReturns(k, t) \/ TeardownRaises(k, t)

Next ==
    \/ \E t \in Tokens : Scheduler(t) \/ Frame(t) \/ TimerFires(t)
    \/ \E t \in Tokens, k \in Kinds : RunTask(k, t)
    \/ BotStartedFrame \/ BotStoppedFrame \/ ErrorFrame
    \/ ConnectionClosed

Spec == Init /\ [][Next]_vars

\* The event loop runs every due timer and every ready coroutine, and the
\* host's speak and dispatch callbacks return or raise.  Frames need never arrive.
Runs(k, t, p) ==
    /\ Task(k, t, p) \in tasks
    /\ RunTask(k, t)
    /\ Task(k, t, p) \notin tasks'

Fairness ==
    \A t \in Tokens :
        /\ WF_vars(TimerFires(t))
        /\ \A k \in Kinds, p \in Places : WF_vars(Runs(k, t, p))

FairSpec == Spec /\ Fairness

-----------------------------------------------------------------------------
(* Properties *)

TypeOK ==
    /\ gen \in [Tokens -> Generation]
    /\ slotToken \in Tokens \cup {None}
    /\ contextTokens \subseteq Tokens
    /\ tombstones \in Seq(Tokens)
    /\ timers \in [Tokens -> Timers \cup {"none"}]
    /\ tasks \subseteq TaskSet
    /\ closed \in BOOLEAN
    /\ pendingToken \in Tokens \cup {None}
    /\ capturedToken \in Tokens \cup {None}
    /\ leased \subseteq Tokens
    /\ used \subseteq Tokens
    /\ outcome \in [Tokens -> Dispositions \cup {"none"}]
    /\ reports \in [Tokens -> Nat]

\* The transport slot and the generation table agree: a generation exists
\* exactly while it occupies the slot, so the fieldless bot frames
\* (on_transport_bot_started/stopped) can only meet the generation that was
\* admitted, and a deadline or a bound context never outlives its generation.
SoleOccupant ==
    \A t \in Tokens :
        /\ Live(t) <=> slotToken = t
        /\ timers[t] # "none" => Live(t)
        /\ t \in contextTokens <=> gen[t].bound

\* The host's on_terminal callback, which advances the scheduler queue, is made
\* at most once per generation, and never while the generation still holds the
\* slot, whatever deadlines, acknowledgements, stops and teardowns race to end it.
ReportedOnce ==
    \A t \in Tokens : reports[t] <= 1 /\ (Live(t) => reports[t] = 0)

\* "after any audio has entered output": the step that takes a generation with
\* submitted audio out of the slot is the coroutine of a transport stop, the end
\* of a teardown, the scheduler releasing its own lease, or the end of the
\* connection.  No deadline, flush acknowledgement, provider error or
\* interruption frees it, whether or not the scheduler still holds the lease.
OutputBarrier ==
    [][\A t \in Tokens :
          (Live(t) /\ gen[t].audio /\ ~Live(t)') =>
              \/ Task("stop", t, "ready") \in tasks \ tasks'
              \/ \E k \in Kinds : Task(k, t, "teardown") \in tasks \ tasks'
              \/ Task("start_next", t, "release") \in tasks \ tasks'
              \/ \E d \in Dispositions : ReleaseGeneration(t, d)
              \/ closed']_vars

\* A generation that record_interruption or a deadline has tombstoned accepts
\* nothing more: it binds no context, submits no audio and is not revived.
TombstoneFence ==
    [][\A t \in Tokens :
          gen[t].tombstoned =>
              \/ ~Live(t)'
              \/ /\ gen'[t].tombstoned
                 /\ gen'[t].bound = gen[t].bound
                 /\ gen'[t].audio = gen[t].audio]_vars

\* After connection_closed the caller's coroutines that are still suspended
\* find nothing: no generation, no deadline, no slot ever come back.
ClosedForGood ==
    closed => /\ slotToken = None
              /\ \A t \in Tokens : ~Live(t) /\ timers[t] = "none"

\* The tombstone memory stays within its limit over any number of generations,
\* and never names a context that is still being spoken.
TombstonesAreOld ==
    /\ Len(tombstones) <= TombstoneLimit
    /\ \A t \in Remembered(tombstones) : ~Live(t)

\* The four together: however deadlines, frames, dispatches suspended at an
\* await and the end of the connection interleave, slot, table, deadlines,
\* tombstones and reports to the host describe the same generation.
SlotSafe == SoleOccupant /\ ReportedOnce /\ ClosedForGood /\ TombstonesAreOld

\* The coordinator implements the slot it promises to the server (SpeechSlot): the
\* holder's verdict is the disposition written on its generation so far.
Verdict == IF slotToken = None THEN "none" ELSE gen[slotToken].disposition

Slot == INSTANCE SpeechSlot WITH slot <- slotToken, verdict <- Verdict

\* Every generation leaves the slot once, with the interruption recorded for it or
\* else with what ended it, however the coordinator's coroutines interleave.
ImplementsSlot == Slot!Spec

-----------------------------------------------------------------------------
(* The inductive invariant behind the properties above *)

\* Nothing exists of a token that was not admitted.
OnlyUsed ==
    /\ capturedToken \in used \cup {None}
    /\ \A t \in Tokens \ used :
          /\ ~Live(t)
          /\ t \notin leased
          /\ t \notin Remembered(tombstones)
          /\ outcome[t] = "none"
          /\ reports[t] = 0
          /\ \A x \in tasks : x.token # t

\* What a live generation and a coroutine suspended for it know of each other.
TasksAgree ==
    \A t \in Tokens :
        /\ ~Live(t) => gen[t] = Absent
        /\ gen[t].audio => gen[t].bound
        /\ Live(t) => outcome[t] = "none"
        /\ gen[t].disposition \in {"paused", "interrupted"} => gen[t].tombstoned
        /\ \A p \in Places : Task("notify", t, p) \in tasks =>
              p = "ready" /\ ~Live(t) /\ reports[t] = 0
        /\ Live(t) /\ (\E p \in Places : Task("finalize", t, p) \in tasks) =>
              /\ gen[t].disposition \in {"paused", "interrupted"}
              /\ ~gen[t].bound
        /\ Live(t) /\ (\E k \in Kinds : Task(k, t, "teardown") \in tasks) =>
              gen[t].teardown

IInv ==
    /\ TypeOK
    /\ SoleOccupant
    /\ ReportedOnce
    /\ ClosedForGood
    /\ TombstonesAreOld
    /\ OnlyUsed
    /\ TasksAgree

-----------------------------------------------------------------------------
(* Liveness, under FairSpec *)

Settling(t) == ~Live(t) \/ gen[t].teardown

\* Every deadline leads out of the state it guards.  A generation handed to TTS
\* starts or is given up on; once synthesis has ended the transport reports a stop,
\* synthesis resumes or the generation is given up on; and a cleanup resolves unless
\* an interruption is recorded while it is pending.
DeadlinesFire ==
    \A t \in Tokens :
        /\ gen[t].phase = "handed_to_tts" ~>
              gen[t].phase # "handed_to_tts" \/ gen[t].tombstoned
        /\ gen[t].phase = "synthesis_ended" ~>
              gen[t].phase = "synthesizing" \/ gen[t].tombstoned \/ ~Live(t)
        /\ gen[t].cleanup ~>
              Settling(t) \/ gen[t].disposition \in {"paused", "interrupted"}

\* An interruption recorded before any cleanup is pending resolves: the slot is
\* freed or the lane is torn down, even if every acknowledgement is lost.
InterruptionResolves ==
    \A t \in Tokens :
        (gen[t].disposition \in {"paused", "interrupted"} /\ ~gen[t].cleanup) ~> Settling(t)

\* _begin_cleanup's promise: "If that acknowledgement does not arrive within the
\* grace window, or cleanup dispatch itself fails, the connection lane is torn
\* down instead."
CleanupResolves ==
    \A t \in Tokens : gen[t].cleanup ~> Settling(t)
=============================================================================
