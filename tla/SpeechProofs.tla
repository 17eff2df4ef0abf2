---------------------------- MODULE SpeechProofs -----------------------------
(***************************************************************************)
(* Proofs about an utterance on its way out: the speech lifecycle          *)
(* coordinator keeps its safety properties for any set of generations, any *)
(* tombstone limit and any number of coroutines, and implements SpeechSlot *)
(* (SpeechLifecycle); and an utterance of the local provider hears only    *)
(* its own audio and is reported over once, for any number of utterances   *)
(* (LocalSynthesis).                                                       *)
(***************************************************************************)
EXTENDS SpeechLifecycle, LocalSynthesis, TLAPS

-----------------------------------------------------------------------------
(* SpeechLifecycle *)

\* The tombstone sequence stays a sequence of contexts within its limit, and
\* remembering a context adds no other one.
LEMMA RememberFacts ==
    ASSUME NEW s \in Seq(Tokens), NEW t \in Tokens, Len(s) <= TombstoneLimit
    PROVE  /\ Remember(s, t) \in Seq(Tokens)
           /\ Len(Remember(s, t)) <= TombstoneLimit
           /\ Remembered(Remember(s, t)) \subseteq Remembered(s) \cup {t}
<1>1. CASE TombstoneLimit = 0
  BY Zenon, <1>1 DEF Remember, Remembered
<1>2. CASE TombstoneLimit # 0 /\ Len(s) < TombstoneLimit
  BY <1>2, LimitAssumption DEF Remember, Remembered
<1>3. CASE TombstoneLimit # 0 /\ ~(Len(s) < TombstoneLimit)
  <2>1. Len(s) = TombstoneLimit /\ s # <<>>
    BY <1>3, LimitAssumption
  <2>2. Tail(s) \in Seq(Tokens) /\ Len(Tail(s)) = Len(s) - 1
    BY <2>1
  <2>3. \A i \in 1..Len(Tail(s)) : Tail(s)[i] = s[i + 1]
    BY <2>1
  <2> QED
    BY <1>3, <2>1, <2>2, <2>3, LimitAssumption DEF Remember, Remembered
<1> QED
  BY Zenon, <1>1, <1>2, <1>3

\* The record literals and updates the steps write stay generations.
LEMMA AbsentFacts ==
    /\ Absent \in Generation
    /\ Absent.phase = "absent" /\ Absent.disposition = "none"
    /\ ~Absent.bound /\ ~Absent.audio /\ ~Absent.cleanup
    /\ ~Absent.teardown /\ ~Absent.tombstoned
  BY Zenon DEF Absent, Generation, Phases, Dispositions

\* Reaping a generation keeps the types.
LEMMA TerminalizeStateType ==
    ASSUME TypeOK, TombstonesAreOld, NEW t \in Tokens, NEW d \in Dispositions \cup {"none"},
           TerminalizeState(t, d)
    PROVE  /\ gen' \in [Tokens -> Generation]
           /\ slotToken' \in Tokens \cup {None}
           /\ contextTokens' \subseteq Tokens
           /\ tombstones' \in Seq(Tokens)
           /\ timers' \in [Tokens -> Timers \cup {"none"}]
           /\ outcome' \in [Tokens -> Dispositions \cup {"none"}]
<1>1. gen[t] \in Generation
  BY Zenon DEF TypeOK
<1>2. Or(gen[t].disposition, d) \in Dispositions \cup {"none"}
  BY Zenon, <1>1 DEF Or, Generation
<1>3. Len(tombstones) <= TombstoneLimit
  BY Zenon DEF TombstonesAreOld
<1> QED
  BY Zenon, <1>2, <1>3, AbsentFacts, RememberFacts DEF TerminalizeState, TypeOK

\* Reaping the generation of t: what becomes of the conjuncts of the invariant
\* that speak of generations, slot, deadlines and contexts only.
LEMMA TerminalizeStateStep ==
    ASSUME IInv, NEW t \in Tokens, NEW d \in Dispositions \cup {"none"}, Live(t),
           TerminalizeState(t, d)
    PROVE  /\ SoleOccupant'
           /\ TombstonesAreOld'
           /\ ~Live(t)'
           /\ \A u \in Tokens \ {t} : gen'[u] = gen[u] /\ outcome'[u] = outcome[u]
           /\ gen'[t] = Absent
           /\ Remembered(tombstones') \subseteq Remembered(tombstones) \cup {t}
           /\ slotToken' = None
<1> USE DEF IInv
<1>1. gen' = [gen EXCEPT ![t] = Absent] /\ gen \in [Tokens -> Generation]
  BY Zenon DEF TerminalizeState, TypeOK
<1>2. gen'[t] = Absent /\ \A u \in Tokens \ {t} : gen'[u] = gen[u]
  BY Zenon, <1>1
<1>3. ~Live(t)'
  BY Zenon, <1>2, AbsentFacts DEF Live
<1>4. slotToken' = None
  BY Zenon DEF SoleOccupant, TerminalizeState
<1>5. /\ Remembered(tombstones') \subseteq Remembered(tombstones) \cup {t}
      /\ Len(tombstones') <= TombstoneLimit
  BY Zenon, RememberFacts DEF TerminalizeState, TypeOK, TombstonesAreOld
<1>6. SoleOccupant'
  BY Zenon, <1>2, <1>3, <1>4, AbsentFacts, NoneAssumption
  DEF SoleOccupant, TerminalizeState, TypeOK, Live
<1>7. TombstonesAreOld'
  <2>1. \A u \in Remembered(tombstones) : u \in Tokens
    BY DEF TypeOK, Remembered
  <2> QED
    BY Zenon, <1>2, <1>3, <1>5, <2>1 DEF TombstonesAreOld, Live
<1>8. \A u \in Tokens \ {t} : outcome'[u] = outcome[u]
  BY Zenon DEF TerminalizeState, TypeOK
<1> QED
  BY Zenon, <1>2, <1>3, <1>4, <1>5, <1>6, <1>7, <1>8

\* A coroutine is its kind, its token and its place.
LEMMA TaskFields ==
    ASSUME NEW k, NEW t, NEW p
    PROVE  /\ Task(k, t, p).kind = k /\ Task(k, t, p).token = t /\ Task(k, t, p).at = p
           /\ k \in Kinds /\ t \in Tokens /\ p \in Places => Task(k, t, p) \in TaskSet
  BY Zenon DEF Task, TaskSet

\* A step that reaps the live generation of t, reporting it at most once.  At
\* most the coroutine x is new.
Reaps(t, d, x) ==
    /\ Live(t)
    /\ TerminalizeState(t, d)
    /\ reports' \in [Tokens -> Nat]
    /\ \A u \in Tokens \ {t} : reports'[u] = reports[u]
    /\ reports'[t] <= 1
    /\ leased' \subseteq leased
    /\ tasks' \subseteq tasks \cup {x}
    /\ x.token \in used /\ x.kind # "finalize" /\ x.at # "teardown"
    /\ x.kind = "notify" => x.token = t /\ x.at = "ready" /\ reports'[t] = 0
    /\ UNCHANGED taskFrame

\* A step that removes the entry of a token.
LEMMA ReapStep ==
    ASSUME IInv, NEW t \in Tokens, NEW d \in Dispositions \cup {"none"}, NEW x \in TaskSet,
           Reaps(t, d, x)
    PROVE  IInv'
<1> USE DEF IInv, Reaps
<1>1. /\ SoleOccupant' /\ TombstonesAreOld' /\ ~Live(t)'
      /\ \A u \in Tokens \ {t} : gen'[u] = gen[u] /\ outcome'[u] = outcome[u]
      /\ gen'[t] = Absent
      /\ Remembered(tombstones') \subseteq Remembered(tombstones) \cup {t}
      /\ slotToken' = None
  BY Zenon, TerminalizeStateStep
<1>2. TypeOK'
  BY Zenon, TerminalizeStateType DEF TypeOK, taskFrame
<1>3. ReportedOnce'
  BY Zenon, <1>1 DEF ReportedOnce, Live, TypeOK
<1>4. ClosedForGood'
  BY Zenon, <1>1, <1>2, NoneAssumption DEF ClosedForGood, SoleOccupant, TypeOK, taskFrame
<1>5. OnlyUsed'
  <2>1. t \in used
    BY Zenon DEF OnlyUsed
  <2> QED
    BY <1>1, <2>1 DEF OnlyUsed, Live, taskFrame
<1>6. TasksAgree'
  <2> SUFFICES ASSUME NEW u \in Tokens PROVE TasksAgree!(u)'
    BY Zenon DEF TasksAgree
  <2>1. CASE u = t
    BY <1>1, <2>1, AbsentFacts, TaskFields DEF TasksAgree, Live
  <2>2. CASE u # t
    BY <1>1, <2>2, TaskFields DEF TasksAgree, Live
  <2> QED
    BY Zenon, <2>1, <2>2
<1> QED
  BY Zenon, <1>1, <1>2, <1>3, <1>4, <1>5, <1>6

\* A step that rewrites the live generation of t to g, with its deadline and its
\* coroutines, and keeps it live.  At most the coroutine x is new.
Updates(t, g, x) ==
    /\ Live(t) /\ g.phase # "absent"
    /\ g.audio => g.bound
    /\ gen[t].bound => g.bound
    /\ gen[t].teardown => g.teardown
    /\ g.disposition \in {"paused", "interrupted"} => g.tombstoned
    /\ gen[t].disposition \in {"paused", "interrupted"} =>
          g.disposition \in {"paused", "interrupted"} /\ g.bound = gen[t].bound
    /\ gen' = [gen EXCEPT ![t] = g]
    /\ contextTokens' = IF g.bound THEN contextTokens \cup {t} ELSE contextTokens
    /\ timers' \in [Tokens -> Timers \cup {"none"}]
    /\ \A u \in Tokens \ {t} : timers'[u] = timers[u]
    /\ tasks' \subseteq tasks \cup {x}
    /\ x.token = t /\ x.kind # "notify"
    /\ x.kind = "finalize" => g.disposition \in {"paused", "interrupted"} /\ ~g.bound
    /\ x.at = "teardown" => g.teardown
    /\ leased' \subseteq leased
    /\ pendingToken' \in Tokens \cup {None}
    /\ UNCHANGED <<slotToken, tombstones, closed, capturedToken, used, historyVars>>

\* A step that rewrites the live entry of a token.
LEMMA UpdateStep ==
    ASSUME IInv, NEW t \in Tokens, NEW g \in Generation, NEW x \in TaskSet, Updates(t, g, x)
    PROVE  IInv'
<1> USE DEF IInv, Updates
<1>1. gen'[t] = g /\ \A u \in Tokens \ {t} : gen'[u] = gen[u]
  BY Zenon DEF TypeOK
<1>2. TypeOK'
  BY Zenon DEF TypeOK, historyVars
<1>3. SoleOccupant'
  BY <1>1 DEF SoleOccupant, TypeOK, Live
<1>4. ReportedOnce' /\ TombstonesAreOld'
  BY <1>1 DEF ReportedOnce, TombstonesAreOld, TypeOK, Live, historyVars, Remembered
<1>5. ClosedForGood'
  BY Zenon DEF ClosedForGood
<1>6. OnlyUsed'
  BY <1>1 DEF OnlyUsed, historyVars, Live
<1>7. TasksAgree'
  <2> SUFFICES ASSUME NEW u \in Tokens PROVE TasksAgree!(u)'
    BY Zenon DEF TasksAgree
  <2>1. CASE u = t
    BY <1>1, <2>1, TaskFields DEF TasksAgree, historyVars, Live
  <2>2. CASE u # t
    BY <1>1, <2>2, TaskFields DEF TasksAgree, historyVars, Live
  <2> QED
    BY Zenon, <2>1, <2>2
<1> QED
  BY Zenon, <1>2, <1>3, <1>4, <1>5, <1>6, <1>7

\* A step that changes no generation: a coroutine of an admitted token starts,
\* moves on or ends, a deadline is spent, an adapter notes a marker.
Quiet(x) ==
    /\ tasks' \subseteq tasks \cup {x}
    /\ x \notin tasks =>
          x.token \in used /\ x.kind # "notify" /\ x.kind # "finalize" /\ x.at # "teardown"
    /\ timers' \in [Tokens -> Timers \cup {"none"}]
    /\ \A u \in Tokens : timers'[u] # "none" => timers[u] # "none"
    /\ leased' \subseteq leased
    /\ pendingToken' \in Tokens \cup {None}
    /\ capturedToken' \in used \cup {None}
    /\ UNCHANGED <<gen, slotToken, contextTokens, tombstones, closed, used, historyVars>>

\* A step that leaves every entry alone.
LEMMA QuietStep ==
    ASSUME IInv, NEW x \in TaskSet, Quiet(x)
    PROVE  IInv'
<1> USE DEF IInv, Quiet
<1>1. TypeOK'
  BY Zenon DEF TypeOK, historyVars
<1>2. SoleOccupant' /\ ReportedOnce' /\ TombstonesAreOld' /\ ClosedForGood'
  BY Zenon DEF SoleOccupant, ReportedOnce, TombstonesAreOld, ClosedForGood, TypeOK, Live,
         historyVars, Remembered
<1>3. OnlyUsed'
  BY DEF OnlyUsed, historyVars, Live
<1>4. TasksAgree'
  BY TaskFields DEF TasksAgree, OnlyUsed, historyVars, Live
<1> QED
  BY Zenon, <1>1, <1>2, <1>3, <1>4

\* _terminalize from a coroutine or frame handler: a live generation is reaped and
\* reported, a missing one is left alone.
LEMMA TerminalizeStep ==
    ASSUME IInv, NEW t \in Tokens, NEW d \in Dispositions \cup {"none"}, NEW x \in TaskSet,
           Terminalize(t, d), tasks' \subseteq tasks \cup {x},
           x.token \in used, x.kind = "start_next", x.at # "teardown", UNCHANGED taskFrame
    PROVE  IInv'
<1>1. CASE Live(t) /\ TerminalizeState(t, d) /\ OnTerminal(t)
  <2>1. reports[t] = 0 /\ reports \in [Tokens -> Nat]
    BY Zenon, <1>1 DEF IInv, ReportedOnce, TypeOK
  <2>2. Reaps(t, d, x)
    BY <1>1, <2>1 DEF Reaps, OnTerminal
  <2> QED
    BY Zenon, <2>2, ReapStep
<1>2. CASE ~Live(t) /\ UNCHANGED <<gen, slotToken, contextTokens, tombstones, timers,
                                   leased, historyVars>>
  <2>1. Quiet(x)
    BY Zenon, <1>2 DEF Quiet, taskFrame, IInv, TypeOK, OnlyUsed
  <2> QED
    BY Zenon, <2>1, QuietStep
<1> QED
  BY Zenon, <1>1, <1>2 DEF Terminalize

\* What the invariant says of one token, in the form Updates needs.
LEMMA GenFacts ==
    ASSUME IInv, NEW t \in Tokens
    PROVE  /\ gen[t] \in Generation /\ gen \in [Tokens -> Generation]
           /\ gen[t].audio => gen[t].bound
           /\ gen[t].disposition \in {"paused", "interrupted"} => gen[t].tombstoned
           /\ contextTokens = IF gen[t].bound THEN contextTokens \cup {t} ELSE contextTokens
           /\ timers \in [Tokens -> Timers \cup {"none"}]
           /\ pendingToken \in Tokens \cup {None}
           /\ Live(t) => t \in used
  BY DEF IInv, TypeOK, TasksAgree, SoleOccupant, OnlyUsed

-----------------------------------------------------------------------------
(* The scheduler's calls *)

\* try_admit: a fresh token takes the free slot.
LEMMA TryAdmitStep ==
    ASSUME IInv, NEW t \in Tokens, TryAdmit(t)
    PROVE  IInv'
<1> USE DEF IInv
<1>1. /\ [Absent EXCEPT !.phase = "handed_to_tts"] \in Generation
      /\ gen'[t].phase = "handed_to_tts" /\ gen'[t].disposition = "none"
      /\ ~gen'[t].bound /\ ~gen'[t].audio /\ ~gen'[t].teardown
      /\ \A u \in Tokens \ {t} : gen'[u] = gen[u]
  BY Zenon DEF TryAdmit, TypeOK, Absent, Generation, Phases
<1>2. TypeOK'
  BY <1>1 DEF TypeOK, TryAdmit, MarkHandedToTts, Timers, adapterVars, historyVars,
     Task, TaskSet, Kinds, Places
<1>3. SoleOccupant'
  <2>1. slotToken = None /\ slotToken' = t /\ t \notin contextTokens
    BY AbsentFacts DEF TryAdmit, SoleOccupant, OnlyUsed, TasksAgree
  <2> QED
    BY Zenon, <1>1, <2>1, NoneAssumption
    DEF SoleOccupant, TryAdmit, MarkHandedToTts, TypeOK, Live
<1>4. ReportedOnce' /\ ClosedForGood' /\ TombstonesAreOld'
  BY <1>1 DEF ReportedOnce, ClosedForGood, TombstonesAreOld, OnlyUsed, TryAdmit, TypeOK, Live,
     historyVars, Remembered
<1>5. OnlyUsed'
  BY <1>1, TaskFields DEF OnlyUsed, TryAdmit, adapterVars, historyVars, Live
<1>6. TasksAgree'
  BY <1>1, TaskFields DEF TasksAgree, OnlyUsed, TryAdmit, historyVars, Live
<1> QED
  BY Zenon, <1>2, <1>3, <1>4, <1>5, <1>6

\* record_interruption marks the leased utterance and takes its lease.
LEMMA RecordInterruptionStep ==
    ASSUME IInv, NEW t \in Tokens, NEW d \in {"paused", "interrupted"},
           RecordInterruption(t, d)
    PROVE  IInv'
<1> DEFINE g == [gen[t] EXCEPT !.disposition = d, !.tombstoned = TRUE]
           x == Task(IF gen[t].bound THEN "interruption" ELSE "finalize", t, "ready")
<1>1. gen[t] \in Generation /\ gen' = [gen EXCEPT ![t] = g] /\ Live(t)
  BY Zenon DEF RecordInterruption, IInv, TypeOK
<1>2. /\ g \in Generation
      /\ g.phase = gen[t].phase /\ g.disposition = d /\ g.tombstoned
      /\ g.bound = gen[t].bound /\ g.audio = gen[t].audio /\ g.teardown = gen[t].teardown
  BY Zenon, <1>1 DEF Generation, Dispositions
<1>3. /\ x \in TaskSet /\ x.token = t /\ x.at = "ready"
      /\ x.kind # "notify" /\ (x.kind = "finalize" => ~gen[t].bound)
      /\ tasks' \subseteq tasks \cup {x}
  BY TaskFields DEF RecordInterruption, Kinds, Places
<1> HIDE DEF g, x
<1>4. /\ timers' \in [Tokens -> Timers \cup {"none"}]
      /\ \A u \in Tokens \ {t} : timers'[u] = timers[u]
  BY Zenon DEF RecordInterruption, InterruptionTimer, IInv, TypeOK, Timers
<1>5. /\ gen[t].audio => gen[t].bound
      /\ contextTokens' = IF g.bound THEN contextTokens \cup {t} ELSE contextTokens
      /\ pendingToken' \in Tokens \cup {None}
  BY Zenon, <1>2 DEF RecordInterruption, adapterVars, IInv, TypeOK, TasksAgree, SoleOccupant
<1>6. Updates(t, g, x)
  BY Zenon, <1>1, <1>2, <1>3, <1>4, <1>5 DEF Updates, RecordInterruption, adapterVars, Live
<1> QED
  BY Zenon, <1>2, <1>3, <1>6, UpdateStep

\* release_generation: the scheduler settled its lease itself.
LEMMA ReleaseGenerationStep ==
    ASSUME IInv, NEW t \in Tokens, NEW d \in {"delivery_unknown", "delivery_completed"},
           ReleaseGeneration(t, d)
    PROVE  IInv'
<1> DEFINE x == Task("notify", t, "ready")
<1>1. x \in TaskSet /\ x.kind = "notify" /\ x.token = t /\ x.at = "ready"
  BY TaskFields DEF Kinds, Places
<1>2. t \in used
  BY Zenon DEF ReleaseGeneration, IInv, OnlyUsed
<1>3. reports[t] \in Nat /\ (Live(t) => reports[t] = 0) /\ reports \in [Tokens -> Nat]
  BY Zenon DEF IInv, ReportedOnce, TypeOK
<1> HIDE DEF x
<1>4. CASE Live(t) /\ TerminalizeState(t, d) /\ tasks' = tasks \cup {x}
  <2>1. Reaps(t, d, x)
    BY <1>1, <1>2, <1>3, <1>4 DEF Reaps, ReleaseGeneration, taskFrame, adapterVars
  <2> QED
    BY Zenon, <1>1, <2>1, ReapStep DEF Dispositions
<1>5. CASE ~Live(t) /\ UNCHANGED <<gen, slotToken, contextTokens, tombstones, timers,
                                   tasks, outcome>>
  <2> DEFINE y == Task("stop", t, "ready")
  <2>1. y \in TaskSet /\ y.kind = "stop" /\ y.token = t /\ y.at = "ready"
    BY TaskFields DEF Kinds, Places
  <2> HIDE DEF y
  <2>2. Quiet(y)
    BY Zenon, <1>2, <1>5, <2>1 DEF Quiet, ReleaseGeneration, adapterVars, historyVars, IInv, TypeOK, OnlyUsed
  <2> QED
    BY Zenon, <2>1, <2>2, QuietStep
<1> QED
  BY Zenon, <1>4, <1>5 DEF ReleaseGeneration, x

\* start_next's own coroutine, the markers and the errors only start or move
\* coroutines.
LEMMA SpeakStep ==
    ASSUME IInv, NEW t \in Tokens, SpeakReturns(t) \/ SpeakRaises(t)
    PROVE  IInv'
<1> DEFINE x == Task("start_next", t, "ready")
<1>1. x \in TaskSet /\ x.kind = "start_next" /\ x.token = t /\ x.at = "ready"
  BY TaskFields DEF Kinds, Places
<1>2. tasks' \subseteq tasks \cup {x} /\ t \in used
  BY TaskFields DEF SpeakReturns, SpeakRaises, IInv, OnlyUsed
<1> HIDE DEF x
<1>3. Quiet(x)
  BY Zenon, <1>1, <1>2 DEF Quiet, SpeakReturns, SpeakRaises, adapterVars, IInv, TypeOK, OnlyUsed
<1> QED
  BY Zenon, <1>1, <1>3, QuietStep

\* The marker crosses the observer before the TTS, then the processor after it.
LEMMA MarkerStep ==
    ASSUME IInv, NEW t \in Tokens, MarkerAtObserver(t) \/ MarkerAtProcessor(t)
    PROVE  IInv'
<1> DEFINE x == Task("stop", t, "ready")
<1>1. x \in TaskSet /\ x.kind = "stop" /\ x.token = t /\ x.at = "ready"
  BY TaskFields DEF Kinds, Places
<1> HIDE DEF x
<1>2. Quiet(x)
  BY Zenon, <1>1 DEF Quiet, MarkerAtObserver, MarkerAtProcessor, IInv, TypeOK, OnlyUsed
<1> QED
  BY Zenon, <1>1, <1>2, QuietStep

\* The error event of the provider.
LEMMA ProviderErrorEventStep ==
    ASSUME IInv, NEW t \in Tokens, ProviderErrorEvent(t)
    PROVE  IInv'
<1> DEFINE x == Task("error", t, "ready")
<1>1. x \in TaskSet /\ x.kind = "error" /\ x.token = t /\ x.at = "ready"
  BY TaskFields DEF Kinds, Places
<1>2. t \in used /\ tasks' = tasks \cup {x}
  BY AbsentFacts DEF ProviderErrorEvent, IInv, OnlyUsed, SoleOccupant, TasksAgree
<1> HIDE DEF x
<1>3. Quiet(x)
  BY Zenon, <1>1, <1>2 DEF Quiet, ProviderErrorEvent, adapterVars, IInv, TypeOK, OnlyUsed
<1> QED
  BY Zenon, <1>1, <1>3, QuietStep

\* The error frame on the pipeline.
LEMMA ErrorFrameStep ==
    ASSUME IInv, ErrorFrame
    PROVE  IInv'
<1> DEFINE x == Task("error", capturedToken, "ready")
<1>1. capturedToken \in Tokens
  BY Zenon DEF ErrorFrame, IInv, TypeOK
<1>2. x \in TaskSet /\ x.kind = "error" /\ x.token = capturedToken /\ x.at = "ready"
  BY <1>1, TaskFields DEF Kinds, Places
<1> HIDE DEF x
<1>3. Quiet(x)
  BY Zenon, <1>1, <1>2 DEF Quiet, ErrorFrame, IInv, TypeOK, OnlyUsed, x
<1> QED
  BY Zenon, <1>2, <1>3, QuietStep

-----------------------------------------------------------------------------
(* Frames that rewrite the generation they belong to *)

\* The lookups behind the frame handlers: a token with a bound context, or the
\* one a marker binds, is live, admitted and not tombstoned.
LEMMA AcceptFacts ==
    ASSUME IInv, NEW t \in Tokens, Accepts(t) \/ BindContext(pendingToken, t)
    PROVE  /\ Live(t) /\ ~gen[t].tombstoned /\ gen[t] \in Generation
           /\ gen[t].disposition \notin {"paused", "interrupted"}
           /\ gen[t].audio => gen[t].bound
           /\ Accepts(t) => gen[t].bound
  BY Zenon DEF Accepts, BindContext, IInv, TypeOK, TasksAgree, SoleOccupant

\* The started frame binds the entry to its context.
LEMMA TtsStartedStep ==
    ASSUME IInv, NEW t \in Tokens, TtsStartedFrame(t)
    PROVE  IInv'
<1> DEFINE g == [gen[t] EXCEPT !.bound = TRUE, !.phase = "synthesizing"]
           x == Task("stop", t, "ready")
<1>1. Accepts(t) \/ BindContext(pendingToken, t)
  BY Zenon DEF TtsStartedFrame
<1>2. /\ Live(t) /\ ~gen[t].tombstoned /\ gen[t] \in Generation
      /\ gen[t].disposition \notin {"paused", "interrupted"}
  BY Zenon, <1>1, AcceptFacts
<1>3. /\ g \in Generation /\ g.bound /\ g.phase = "synthesizing"
      /\ g.disposition = gen[t].disposition /\ g.teardown = gen[t].teardown
      /\ gen' = [gen EXCEPT ![t] = g]
  BY Zenon, <1>2 DEF TtsStartedFrame, Generation, Phases, IInv, TypeOK
<1>4. x \in TaskSet /\ x.kind = "stop" /\ x.token = t /\ x.at = "ready"
  BY TaskFields DEF Kinds, Places
<1>5. /\ timers' \in [Tokens -> Timers \cup {"none"}]
      /\ \A u \in Tokens \ {t} : timers'[u] = timers[u]
      /\ pendingToken' \in Tokens \cup {None}
  BY Zenon DEF TtsStartedFrame, IInv, TypeOK
<1> HIDE DEF g, x
<1>6. Updates(t, g, x)
  BY Zenon, <1>2, <1>3, <1>4, <1>5 DEF Updates, TtsStartedFrame
<1> QED
  BY Zenon, <1>3, <1>4, <1>6, UpdateStep

\* An audio frame.
LEMMA TtsAudioStep ==
    ASSUME IInv, NEW t \in Tokens, TtsAudioFrame(t)
    PROVE  IInv'
<1> DEFINE g == [gen[t] EXCEPT !.audio = TRUE]
           x == Task("stop", t, "ready")
<1>1. /\ Live(t) /\ gen[t] \in Generation /\ gen[t].bound /\ t \in contextTokens
      /\ gen[t].disposition \notin {"paused", "interrupted"}
  BY Zenon, AcceptFacts DEF TtsAudioFrame, Accepts
<1>2. /\ g \in Generation /\ g.bound = gen[t].bound /\ g.phase = gen[t].phase
      /\ g.disposition = gen[t].disposition /\ g.teardown = gen[t].teardown
      /\ gen' = [gen EXCEPT ![t] = g]
  BY Zenon, <1>1 DEF TtsAudioFrame, Generation, IInv, TypeOK
<1>3. x \in TaskSet /\ x.kind = "stop" /\ x.token = t /\ x.at = "ready"
  BY TaskFields DEF Kinds, Places
<1> HIDE DEF g, x
<1>4. Updates(t, g, x)
  BY Zenon, <1>1, <1>2, <1>3, GenFacts DEF Updates, TtsAudioFrame, adapterVars, Live
<1> QED
  BY Zenon, <1>2, <1>3, <1>4, UpdateStep

\* The stopped frame.
LEMMA TtsStoppedStep ==
    ASSUME IInv, NEW t \in Tokens, TtsStoppedFrame(t)
    PROVE  IInv'
<1> DEFINE g == [gen[t] EXCEPT !.phase = "synthesis_ended"]
           x == Task("stop", t, "ready")
<1>1. /\ Live(t) /\ gen[t] \in Generation /\ gen[t].bound /\ t \in contextTokens
      /\ gen[t].disposition \notin {"paused", "interrupted"}
  BY Zenon, AcceptFacts DEF TtsStoppedFrame, Accepts
<1>2. /\ g \in Generation /\ g.bound = gen[t].bound /\ g.phase = "synthesis_ended"
      /\ g.disposition = gen[t].disposition /\ g.teardown = gen[t].teardown
      /\ g.audio = gen[t].audio
      /\ gen' = [gen EXCEPT ![t] = g]
  BY Zenon, <1>1 DEF TtsStoppedFrame, Generation, Phases, IInv, TypeOK
<1>3. x \in TaskSet /\ x.kind = "stop" /\ x.token = t /\ x.at = "ready"
  BY TaskFields DEF Kinds, Places
<1>4. /\ timers' \in [Tokens -> Timers \cup {"none"}]
      /\ \A u \in Tokens \ {t} : timers'[u] = timers[u]
  BY Zenon DEF TtsStoppedFrame, IInv, TypeOK, Timers
<1> HIDE DEF g, x
<1>5. Updates(t, g, x)
  BY Zenon, <1>1, <1>2, <1>3, <1>4, GenFacts DEF Updates, TtsStoppedFrame, adapterVars
<1> QED
  BY Zenon, <1>2, <1>3, <1>5, UpdateStep

\* The fieldless bot frames rewrite the phase of the slot's holder; the stop also
\* starts the coroutine that ends it.
LEMMA BotStep ==
    ASSUME IInv, NEW ph \in Phases, Occupied,
           gen' = [gen EXCEPT ![slotToken].phase = ph],
           timers' = timers \/ timers' = [timers EXCEPT ![slotToken] = "none"],
           tasks' \subseteq tasks \cup {Task("stop", slotToken, "ready")},
           UNCHANGED <<slotToken, contextTokens, tombstones, closed, adapterVars, leased,
                       used, historyVars>>
    PROVE  IInv'
<1> DEFINE t == slotToken
           g == [gen[t] EXCEPT !.phase = ph]
           x == Task("stop", t, "ready")
<1>1. t \in Tokens /\ Live(t)
  BY Zenon DEF Occupied, IInv, TypeOK
<1>2. gen[t] \in Generation /\ gen \in [Tokens -> Generation]
  BY Zenon, <1>1, GenFacts
<1>3. /\ g \in Generation /\ g.phase = ph /\ ph # "absent"
      /\ g.bound = gen[t].bound /\ g.audio = gen[t].audio /\ g.teardown = gen[t].teardown
      /\ g.disposition = gen[t].disposition /\ g.tombstoned = gen[t].tombstoned
      /\ gen' = [gen EXCEPT ![t] = g]
  BY Zenon, <1>1, <1>2 DEF Generation, Phases
<1>4. x \in TaskSet /\ x.kind = "stop" /\ x.token = t /\ x.at = "ready"
  BY <1>1, TaskFields DEF Kinds, Places
<1>5. tasks' \subseteq tasks \cup {x}
  BY Zenon
<1>6. /\ timers' \in [Tokens -> Timers \cup {"none"}]
      /\ \A u \in Tokens \ {t} : timers'[u] = timers[u]
  BY Zenon, <1>1 DEF IInv, TypeOK
<1> HIDE DEF t, g, x
<1>7. Updates(t, g, x)
  BY Zenon, <1>1, <1>2, <1>3, <1>4, <1>5, <1>6, GenFacts DEF Updates, adapterVars
<1> QED
  BY Zenon, <1>1, <1>3, <1>4, <1>7, UpdateStep

-----------------------------------------------------------------------------
(* Deadlines and coroutines *)

\* A coroutine in the set belongs to an admitted token; the one left by Ends can
\* only be start_next's release.
LEMMA CoroutineFacts ==
    ASSUME IInv, NEW t \in Tokens
    PROVE  /\ \A k, p : Task(k, t, p) \in tasks => t \in used
           /\ \A k, p : Ends(k, t, p) =>
                 tasks' \subseteq tasks \cup {Task("start_next", t, "release")}
           /\ Task("start_next", t, "release") \in TaskSet
  BY TaskFields DEF IInv, OnlyUsed, Ends, MovesTo, Kinds, Places

\* The timer callback schedules the coroutine of its deadline.
LEMMA TimerFiresStep ==
    ASSUME IInv, NEW t \in Tokens, TimerFires(t)
    PROVE  IInv'
<1> DEFINE x == Task(TimerTask(timers[t]), t, "ready")
<1>1. TimerTask(timers[t]) \in {"unknown", "interruption", "flush"}
  BY Zenon DEF TimerFires, TimerTask, IInv, TypeOK, Timers
<1>2. /\ x \in TaskSet /\ x.kind \in {"unknown", "interruption", "flush"}
      /\ x.token = t /\ x.at = "ready"
  BY <1>1, TaskFields DEF Kinds, Places
<1>3. t \in used
  BY Zenon DEF TimerFires, IInv, SoleOccupant, OnlyUsed
<1>4. tasks' = tasks \cup {x}
  BY Zenon DEF TimerFires
<1> HIDE DEF x
<1>5. Quiet(x)
  BY Zenon, <1>2, <1>3, <1>4 DEF Quiet, TimerFires, adapterVars, IInv, TypeOK, OnlyUsed
<1> QED
  BY Zenon, <1>2, <1>5, QuietStep

\* A coroutine that finds nothing to do ends without touching the coordinator.
LEMMA EndsQuietly ==
    ASSUME IInv, NEW t \in Tokens, NEW k, NEW p, Task(k, t, p) \in tasks, Ends(k, t, p),
           leased' \subseteq leased,
           UNCHANGED <<gen, slotToken, contextTokens, tombstones, timers, historyVars,
                       taskFrame>>
    PROVE  IInv'
<1> DEFINE x == Task("start_next", t, "release")
<1>1. x \in TaskSet /\ t \in used /\ tasks' \subseteq tasks \cup {x}
  BY Zenon, CoroutineFacts
<1>2. x.kind = "start_next" /\ x.token = t /\ x.at = "release"
  BY TaskFields
<1> HIDE DEF x
<1>3. Quiet(x)
  BY Zenon, <1>1, <1>2 DEF Quiet, taskFrame, IInv, TypeOK, OnlyUsed
<1> QED
  BY Zenon, <1>1, <1>3, QuietStep

\* A coroutine that ends an utterance begins: its entry may be gone by now.
LEMMA BeginExitStep ==
    ASSUME IInv, NEW t \in Tokens, NEW k \in Kinds, BeginExit(k, t)
    PROVE  IInv'
<1>1. CASE ~Live(t) /\ Ends(k, t, "ready") /\ UNCHANGED gen
  BY Zenon, <1>1, EndsQuietly DEF BeginExit
<1>2. CASE Live(t)
  <2> DEFINE h == IF k = "interruption" THEN gen[t]
                  ELSE [gen[t] EXCEPT !.disposition = Or(@, "delivery_unknown"),
                                      !.tombstoned = TRUE]
             g == IF h.cleanup THEN h ELSE [h EXCEPT !.cleanup = TRUE]
             x == IF h.cleanup THEN Task("start_next", t, "release")
                  ELSE Task(k, t, "cleanup")
  <2>1. BeginCleanup(k, t, h) /\ k \in {"unknown", "error", "start_next", "interruption"}
    BY Zenon, <1>2 DEF BeginExit
  <2>2. gen[t] \in Generation
    BY Zenon, GenFacts
  <2>3. /\ h \in Generation
        /\ h.phase = gen[t].phase /\ h.bound = gen[t].bound /\ h.audio = gen[t].audio
        /\ h.teardown = gen[t].teardown
        /\ gen[t].disposition \in {"paused", "interrupted"} => h.disposition = gen[t].disposition
        /\ h.disposition \in {"paused", "interrupted"} => h.disposition = gen[t].disposition
        /\ gen[t].tombstoned => h.tombstoned
    BY Zenon, <2>2 DEF Generation, Or, Dispositions
  <2> HIDE DEF h
  <2>4. /\ g \in Generation
        /\ g.phase = h.phase /\ g.bound = h.bound /\ g.audio = h.audio
        /\ g.teardown = h.teardown /\ g.disposition = h.disposition
        /\ g.tombstoned = h.tombstoned
        /\ gen' = [gen EXCEPT ![t] = g]
    BY Zenon, <2>1, <2>3 DEF BeginCleanup, Generation
  <2>5. /\ x \in TaskSet /\ x.token = t
        /\ x.kind # "notify" /\ x.kind # "finalize" /\ x.at # "teardown"
    BY <2>1, TaskFields DEF Kinds, Places
  <2>6. tasks' \subseteq tasks \cup {x}
    BY Zenon, <2>1, CoroutineFacts DEF BeginCleanup, MovesTo
  <2> HIDE DEF g, x
  <2>7. Updates(t, g, x)
    BY Zenon, <1>2, <2>3, <2>4, <2>5, <2>6, GenFacts DEF Updates, BeginExit, Live, taskFrame
  <2> QED
    BY Zenon, <2>4, <2>5, <2>7, UpdateStep
<1> QED
  BY Zenon, <1>1, <1>2 DEF BeginExit

\* _request_teardown, from whichever coroutine.
LEMMA RequestTeardownStep ==
    ASSUME IInv, NEW t \in Tokens, NEW k \in Kinds, NEW p \in Places, k # "notify",
           Task(k, t, p) \in tasks, RequestTeardown(k, t, p),
           UNCHANGED <<slotToken, contextTokens, tombstones, leased, historyVars, taskFrame>>
    PROVE  IInv'
<1>1. CASE Ends(k, t, p) /\ UNCHANGED <<gen, timers>>
  BY Zenon, <1>1, EndsQuietly
<1>2. CASE /\ Live(t)
           /\ gen' = [gen EXCEPT ![t].teardown = TRUE]
           /\ timers' = [timers EXCEPT ![t] = "none"]
           /\ MovesTo(k, t, p, "teardown")
  <2> DEFINE g == [gen[t] EXCEPT !.teardown = TRUE]
             x == Task(k, t, "teardown")
  <2>1. /\ g \in Generation /\ g.teardown /\ g.phase = gen[t].phase
        /\ g.bound = gen[t].bound /\ g.audio = gen[t].audio
        /\ g.disposition = gen[t].disposition /\ g.tombstoned = gen[t].tombstoned
        /\ gen' = [gen EXCEPT ![t] = g]
    BY Zenon, <1>2, GenFacts DEF Generation
  <2>2. /\ x \in TaskSet /\ x.token = t /\ x.kind = k /\ x.at = "teardown"
        /\ tasks' \subseteq tasks \cup {x}
    BY <1>2, TaskFields DEF MovesTo, Places
  <2>3. /\ timers' \in [Tokens -> Timers \cup {"none"}]
        /\ \A u \in Tokens \ {t} : timers'[u] = timers[u]
    BY Zenon, <1>2, GenFacts
  <2>4. k = "finalize" => gen[t].disposition \in {"paused", "interrupted"} /\ ~gen[t].bound
    BY Zenon, <1>2 DEF IInv, TasksAgree
  <2> HIDE DEF g, x
  <2>5. Updates(t, g, x)
    BY Zenon, <1>2, <2>1, <2>2, <2>3, <2>4, GenFacts DEF Updates, Live, taskFrame
  <2> QED
    BY Zenon, <2>1, <2>2, <2>5, UpdateStep
<1> QED
  BY Zenon, <1>1, <1>2 DEF RequestTeardown

\* The cleanup a coroutine awaited returns or raises.
LEMMA CleanupStep ==
    ASSUME IInv, NEW t \in Tokens, NEW k \in Kinds,
           CleanupReturns(k, t) \/ CleanupRaises(k, t)
    PROVE  IInv'
<1>0. k # "notify"
  BY Zenon DEF CleanupReturns, CleanupRaises, IInv, TasksAgree, Places
<1>1. CASE RequestTeardown(k, t, "cleanup")
  BY Zenon, <1>0, <1>1, RequestTeardownStep DEF CleanupReturns, CleanupRaises, Places
<1>2. CASE /\ CleanupReturns(k, t) /\ Live(t) /\ Ends(k, t, "cleanup") /\ UNCHANGED gen
           /\ timers' = [timers EXCEPT ![t] = "flush"]
  <2> DEFINE x == Task("start_next", t, "release")
  <2>1. gen[t] \in Generation /\ gen' = [gen EXCEPT ![t] = gen[t]]
    BY Zenon, <1>2, GenFacts
  <2>2. /\ x \in TaskSet /\ x.token = t /\ x.kind = "start_next" /\ x.at = "release"
        /\ tasks' \subseteq tasks \cup {x}
    BY <1>2, TaskFields, CoroutineFacts
  <2>3. /\ timers' \in [Tokens -> Timers \cup {"none"}]
        /\ \A u \in Tokens \ {t} : timers'[u] = timers[u]
    BY Zenon, <1>2, GenFacts DEF Timers
  <2> HIDE DEF x
  <2>4. Updates(t, gen[t], x)
    BY Zenon, <1>2, <2>1, <2>2, <2>3, GenFacts DEF Updates, CleanupReturns, Live, taskFrame
  <2> QED
    BY Zenon, <2>1, <2>2, <2>4, UpdateStep
<1> QED
  BY Zenon, <1>1, <1>2 DEF CleanupReturns, CleanupRaises

\* The finalizing coroutine begins.
LEMMA BeginFinalizeStep ==
    ASSUME IInv, NEW t \in Tokens, BeginFinalize(t)
    PROVE  IInv'
<1>1. CASE Ends("finalize", t, "ready")
  BY Zenon, <1>1, EndsQuietly DEF BeginFinalize
<1>2. CASE Live(t) /\ MovesTo("finalize", t, "ready", "cleanup")
  <2> DEFINE x == Task("finalize", t, "cleanup")
  <2>1. gen[t] \in Generation /\ gen' = [gen EXCEPT ![t] = gen[t]]
    BY Zenon, GenFacts DEF BeginFinalize
  <2>2. /\ x \in TaskSet /\ x.token = t /\ x.kind = "finalize" /\ x.at = "cleanup"
        /\ tasks' \subseteq tasks \cup {x}
    BY <1>2, TaskFields DEF MovesTo, Kinds, Places
  <2>3. gen[t].disposition \in {"paused", "interrupted"} /\ ~gen[t].bound
    BY Zenon, <1>2 DEF BeginFinalize, IInv, TasksAgree, Places
  <2> HIDE DEF x
  <2>4. Updates(t, gen[t], x)
    BY Zenon, <1>2, <2>1, <2>2, <2>3, GenFacts DEF Updates, BeginFinalize, Live, taskFrame
  <2> QED
    BY Zenon, <2>1, <2>2, <2>4, UpdateStep
<1> QED
  BY Zenon, <1>1, <1>2 DEF BeginFinalize

\* The ways a generation is terminalized: flush-ack, finalized interruption,
\* confirmed teardown, transport stop.
LEMMA TerminalizingStep ==
    ASSUME IInv, NEW t \in Tokens, NEW k \in Kinds,
           \/ FlushAckFrame(t) \/ FinalizeReturns(t) \/ TeardownReturns(k, t)
           \/ StopTerminalizes(t)
    PROVE  IInv'
<1> DEFINE x == Task("start_next", t, "release")
<1>1. PICK d \in Dispositions \cup {"none"} : Terminalize(t, d)
  BY Zenon, GenFacts DEF FlushAckFrame, FinalizeReturns, TeardownReturns, StopTerminalizes,
     Dispositions, Generation
<1>2. /\ x \in TaskSet /\ x.token = t /\ x.kind = "start_next" /\ x.at # "teardown"
      /\ tasks' \subseteq tasks \cup {x} /\ t \in used
  BY TaskFields, CoroutineFacts, GenFacts DEF FlushAckFrame, FlushReleases, FinalizeReturns,
     TeardownReturns, StopTerminalizes
<1>3. UNCHANGED taskFrame
  BY Zenon DEF FlushAckFrame, FinalizeReturns, TeardownReturns, StopTerminalizes
<1> HIDE DEF x
<1> QED
  BY Zenon, <1>1, <1>2, <1>3, TerminalizeStep

\* The flush acknowledgement times out.
LEMMA FlushAckTimeoutStep ==
    ASSUME IInv, NEW t \in Tokens, FlushAckTimeout(t)
    PROVE  IInv'
  BY Zenon, RequestTeardownStep DEF FlushAckTimeout, Kinds, Places

\* The teardown raises.
LEMMA TeardownRaisesStep ==
    ASSUME IInv, NEW t \in Tokens, NEW k \in Kinds, TeardownRaises(k, t)
    PROVE  IInv'
  BY Zenon, EndsQuietly DEF TeardownRaises

\* The scheduled on_terminal call of a released generation.
LEMMA NotifyStep ==
    ASSUME IInv, NEW t \in Tokens, Notify(t)
    PROVE  IInv'
<1> USE DEF IInv
<1>1. /\ tasks' = tasks \ {Task("notify", t, "ready")} /\ Task("notify", t, "ready") \in tasks
      /\ UNCHANGED <<gen, slotToken, contextTokens, tombstones, timers, outcome, taskFrame>>
      /\ leased' \subseteq leased
  BY Zenon DEF Notify, Ends, OnTerminal
<1>2. t \in used /\ ~Live(t) /\ reports[t] = 0
  BY <1>1, TaskFields DEF OnlyUsed, TasksAgree, Places
<1>3. /\ reports' \in [Tokens -> Nat] /\ reports'[t] = 1
      /\ \A u \in Tokens \ {t} : reports'[u] = reports[u]
  BY <1>2 DEF Notify, OnTerminal, TypeOK
<1>4. TypeOK'
  BY Zenon, <1>1, <1>3 DEF TypeOK, taskFrame
<1>5. SoleOccupant' /\ ClosedForGood' /\ TombstonesAreOld'
  BY Zenon, <1>1 DEF SoleOccupant, ClosedForGood, TombstonesAreOld, Remembered, Live, taskFrame
<1>8. ReportedOnce'
  BY <1>1, <1>2, <1>3 DEF ReportedOnce, Live
<1>6. OnlyUsed'
  BY Zenon, <1>1, <1>2, <1>3 DEF OnlyUsed, Live, taskFrame
<1>7. TasksAgree'
  <2> SUFFICES ASSUME NEW u \in Tokens PROVE TasksAgree!(u)'
    BY Zenon DEF TasksAgree
  <2>1. CASE u = t
    BY ZenonT(60), <1>1, <1>2, <2>1, TaskFields DEF TasksAgree, Live
  <2>2. CASE u # t
    BY Zenon, <1>1, <1>3, <2>2, TaskFields DEF TasksAgree, Live
  <2> QED
    BY Zenon, <2>1, <2>2
<1> QED
  BY Zenon, <1>4, <1>5, <1>6, <1>7, <1>8

\* start_next after provider_error releases the generation, if it is still there.
LEMMA ReleaseSubmissionStep ==
    ASSUME IInv, NEW t \in Tokens, ReleaseSubmission(t)
    PROVE  IInv'
<1> DEFINE x == Task("start_next", t, "release")
<1>1. /\ x \in TaskSet /\ x.kind = "start_next" /\ x.token = t /\ x.at = "release"
      /\ t \in used /\ tasks' \subseteq tasks \cup {x}
  BY TaskFields, CoroutineFacts DEF ReleaseSubmission
<1> HIDE DEF x
<1>2. CASE Live(t) /\ TerminalizeState(t, "delivery_unknown")
  <2>1. reports[t] = 0 /\ reports \in [Tokens -> Nat]
    BY Zenon, <1>2 DEF IInv, ReportedOnce, TypeOK
  <2>2. Reaps(t, "delivery_unknown", x)
    BY <1>1, <1>2, <2>1 DEF Reaps, ReleaseSubmission
  <2> QED
    BY Zenon, <1>1, <2>2, ReapStep DEF Dispositions
<1>3. CASE UNCHANGED <<gen, slotToken, contextTokens, tombstones, timers, outcome>>
  <2>1. Quiet(x)
    BY Zenon, <1>1, <1>3 DEF Quiet, ReleaseSubmission, taskFrame, historyVars, IInv, TypeOK, OnlyUsed
  <2> QED
    BY Zenon, <1>1, <2>1, QuietStep
<1> QED
  BY Zenon, <1>2, <1>3 DEF ReleaseSubmission

\* connection_closed drops all state for good.
LEMMA ConnectionClosedStep ==
    ASSUME IInv, ConnectionClosed
    PROVE  IInv'
<1> USE DEF IInv
<1>1. /\ \A t \in Tokens : gen'[t] = Absent /\ timers'[t] = "none"
      /\ slotToken' = None /\ contextTokens' = {} /\ tombstones' = <<>> /\ tasks' \subseteq tasks
      /\ UNCHANGED <<adapterVars, leased, used, historyVars>>
  BY Zenon DEF ConnectionClosed
<1>2. Remembered(tombstones') = {} /\ Len(tombstones') = 0
  BY <1>1 DEF Remembered
<1>3. TypeOK'
  BY <1>1, AbsentFacts DEF TypeOK, ConnectionClosed, adapterVars, historyVars
<1>4. SoleOccupant' /\ ReportedOnce' /\ ClosedForGood' /\ TombstonesAreOld'
  BY <1>1, <1>2, AbsentFacts, NoneAssumption, LimitAssumption DEF SoleOccupant, ReportedOnce,
     ClosedForGood, TombstonesAreOld, Live, historyVars, TypeOK
<1>5. OnlyUsed'
  BY Zenon, <1>1, <1>2, AbsentFacts DEF OnlyUsed, Live, adapterVars, historyVars
<1>6. TasksAgree'
  BY ZenonT(60), <1>1, AbsentFacts DEF TasksAgree, Live, historyVars
<1> QED
  BY Zenon, <1>3, <1>4, <1>5, <1>6

-----------------------------------------------------------------------------
(* The invariant *)

\* The initial states satisfy the invariant.
LEMMA InitInvariant == Init => IInv
<1> SUFFICES ASSUME Init PROVE IInv
  BY Zenon
<1> USE DEF Init
<1>0. tombstones \in Seq(Tokens)
  OBVIOUS
<1>1. TypeOK
  BY Zenon, <1>0, AbsentFacts DEF TypeOK
<1>2. SoleOccupant /\ ReportedOnce /\ ClosedForGood
  BY AbsentFacts, NoneAssumption DEF SoleOccupant, ReportedOnce, ClosedForGood, Live
<1>3. Remembered(tombstones) = {} /\ Len(tombstones) = 0
  BY DEF Remembered
<1>4. TombstonesAreOld /\ OnlyUsed /\ TasksAgree
  BY <1>3, AbsentFacts, LimitAssumption DEF TombstonesAreOld, OnlyUsed, TasksAgree, Live
<1> QED
  BY Zenon, <1>1, <1>2, <1>4 DEF IInv

\* Every step keeps the invariant, one case per action.
LEMMA NextInvariant == IInv /\ [Next]_vars => IInv'
<1> SUFFICES ASSUME IInv, [Next]_vars PROVE IInv'
  BY Zenon
<1>1. ASSUME NEW t \in Tokens, Scheduler(t) PROVE IInv'
  BY Zenon, <1>1, TryAdmitStep, RecordInterruptionStep, ReleaseGenerationStep DEF Scheduler
<1>2. ASSUME NEW t \in Tokens, Frame(t) PROVE IInv'
  <2>1. CASE FlushAckFrame(t)
    BY Zenon, <2>1, TerminalizingStep DEF Kinds
  <2> QED
    BY Zenon, <1>2, <2>1, MarkerStep, TtsStartedStep, TtsAudioStep, TtsStoppedStep,
       ProviderErrorEventStep DEF Frame
<1>3. ASSUME NEW t \in Tokens, TimerFires(t) PROVE IInv'
  BY Zenon, <1>3, TimerFiresStep
<1>4. ASSUME NEW t \in Tokens, NEW k \in Kinds, RunTask(k, t) PROVE IInv'
  BY Zenon, <1>4, SpeakStep, ReleaseSubmissionStep, FlushAckTimeoutStep, BeginFinalizeStep,
     TerminalizingStep, NotifyStep, BeginExitStep, CleanupStep, TeardownRaisesStep
  DEF RunTask
<1>5. CASE BotStartedFrame
  BY Zenon, <1>5, BotStep DEF BotStartedFrame, Phases
<1>6. CASE BotStoppedFrame
  BY Zenon, <1>6, BotStep DEF BotStoppedFrame, Phases
<1>7. CASE ErrorFrame
  BY Zenon, <1>7, ErrorFrameStep
<1>8. CASE ConnectionClosed
  BY Zenon, <1>8, ConnectionClosedStep
<1>9. CASE UNCHANGED vars
  BY <1>9 DEF vars, IInv, TypeOK, SoleOccupant, ReportedOnce, ClosedForGood,
     TombstonesAreOld, OnlyUsed, TasksAgree, Live, Remembered
<1> QED
  BY Zenon, <1>1, <1>2, <1>3, <1>4, <1>5, <1>6, <1>7, <1>8, <1>9 DEF Next

\* The inductive invariant holds in every reachable state.
THEOREM Invariant == Spec => []IInv
  BY InitInvariant, NextInvariant, PTL DEF Spec

\* Every variable keeps its type.
THEOREM TypeCorrect == Spec => []TypeOK
<1>1. IInv => TypeOK
  BY Zenon DEF IInv
<1> QED
  BY <1>1, Invariant, PTL

\* For any number of generations, a generation is in the coordinator's table
\* exactly while it holds the transport slot.
THEOREM SlotHasSoleOccupant == Spec => []SoleOccupant
<1>1. IInv => SoleOccupant
  BY Zenon DEF IInv
<1> QED
  BY <1>1, Invariant, PTL

\* on_terminal is called at most once per generation, after it left the slot.
THEOREM TerminalReportedOnce == Spec => []ReportedOnce
<1>1. IInv => ReportedOnce
  BY Zenon DEF IInv
<1> QED
  BY <1>1, Invariant, PTL

\* A closed coordinator stays empty, whatever its callers still have suspended.
THEOREM ClosedStaysEmpty == Spec => []ClosedForGood
<1>1. IInv => ClosedForGood
  BY Zenon DEF IInv
<1> QED
  BY <1>1, Invariant, PTL

\* The tombstone memory is bounded by its limit and never names a live context.
THEOREM TombstonesBounded == Spec => []TombstonesAreOld
<1>1. IInv => TombstonesAreOld
  BY Zenon DEF IInv
<1> QED
  BY <1>1, Invariant, PTL

\* The coordinator's books agree in every reachable state: the four theorems
\* above as the one invariant that the model checker also runs.
THEOREM SlotIsSafe == Spec => []SlotSafe
<1>1. IInv => SlotSafe
  BY Zenon DEF IInv, SlotSafe
<1> QED
  BY <1>1, Invariant, PTL

-----------------------------------------------------------------------------
(* What a step may never do *)

\* The step that takes a generation with submitted audio out of the slot.
MayFree(t) ==
    \/ Task("stop", t, "ready") \in tasks \ tasks'
    \/ \E k \in Kinds : Task(k, t, "teardown") \in tasks \ tasks'
    \/ Task("start_next", t, "release") \in tasks \ tasks'
    \/ \E d \in Dispositions : ReleaseGeneration(t, d)
    \/ closed'

\* Who can reap a live generation, and what must hold when they do.
LEMMA ExitFacts ==
    ASSUME IInv, Next, NEW t \in Tokens, Live(t), ~Live(t)'
    PROVE  MayFree(t) \/ ~gen[t].audio
<1> USE GenFacts, AbsentFacts DEF Live
<1>1. ASSUME NEW u \in Tokens, Scheduler(u) PROVE MayFree(t)
  <2>1. CASE TryAdmit(u)
    BY <2>1 DEF TryAdmit, Absent, Generation
  <2>3. CASE \E d \in {"paused", "interrupted"} : RecordInterruption(u, d)
    BY <2>3 DEF RecordInterruption, Generation
  <2>2. CASE \E d \in {"delivery_unknown", "delivery_completed"} : ReleaseGeneration(u, d)
    <3>1. PICK d \in Dispositions : ReleaseGeneration(u, d)
      BY Zenon, <2>2 DEF Dispositions
    <3>2. u = t
      BY Zenon, <3>1 DEF ReleaseGeneration, TerminalizeState
    <3> QED
      BY Zenon, <3>1, <3>2 DEF MayFree
  <2> QED
    BY Zenon, <1>1, <2>1, <2>2, <2>3 DEF Scheduler
<1>2. ASSUME NEW u \in Tokens, Frame(u) PROVE ~gen[t].audio
  BY <1>2 DEF Frame, MarkerAtObserver, MarkerAtProcessor, TtsStartedFrame, TtsAudioFrame,
     TtsStoppedFrame, ProviderErrorEvent, FlushAckFrame, FlushReleases, Terminalize,
     TerminalizeState, Generation
<1>3. ASSUME NEW u \in Tokens, TimerFires(u) PROVE FALSE
  BY Zenon, <1>3 DEF TimerFires
<1>4. ASSUME NEW u \in Tokens, NEW k \in Kinds, RunTask(k, u)
      PROVE  MayFree(t) \/ ~gen[t].audio
  <2>1. CASE SpeakReturns(u) \/ SpeakRaises(u) \/ Notify(u) \/ BeginFinalize(u)
             \/ TeardownRaises(k, u)
    BY Zenon, <2>1 DEF SpeakReturns, SpeakRaises, Notify, BeginFinalize, TeardownRaises
  <2>2. CASE FlushAckTimeout(u) \/ CleanupReturns(k, u) \/ CleanupRaises(k, u)
    BY <2>2 DEF FlushAckTimeout, CleanupReturns, CleanupRaises, RequestTeardown, Generation
  <2>3. CASE BeginExit(k, u)
    <3> DEFINE h == [gen[u] EXCEPT !.disposition = Or(@, "delivery_unknown"),
                                   !.tombstoned = TRUE]
    <3>1. gen[u] \in Generation /\ gen \in [Tokens -> Generation]
      BY Zenon
    <3>2. h.phase = gen[u].phase /\ h.cleanup = gen[u].cleanup
          /\ [h EXCEPT !.cleanup = TRUE].phase = gen[u].phase
          /\ [gen[u] EXCEPT !.cleanup = TRUE].phase = gen[u].phase
      BY Zenon, <3>1 DEF Generation
    <3>3. gen'[u].phase = gen[u].phase /\ \A v \in Tokens \ {u} : gen'[v] = gen[v]
      BY Zenon, <2>3, <3>1, <3>2 DEF BeginExit, BeginCleanup
    <3> QED
      BY Zenon, <3>3
  <2>4. CASE ReleaseSubmission(u)
    BY Zenon, <2>4 DEF ReleaseSubmission, TerminalizeState, MayFree
  <2>5. CASE FinalizeReturns(u)
    BY Zenon, <2>5 DEF FinalizeReturns, Terminalize, TerminalizeState, IInv, TasksAgree, Places
  <2>6. CASE TeardownReturns(k, u)
    <3>1. u = t /\ Task(k, t, "teardown") \in tasks
      BY Zenon, <2>6 DEF TeardownReturns, Terminalize, TerminalizeState
    <3>2. Task(k, t, "teardown") \notin tasks'
      BY <2>6, <3>1, TaskFields DEF TeardownReturns, Ends, MovesTo, Task
    <3> QED
      BY Zenon, <3>1, <3>2 DEF MayFree
  <2>7. CASE StopTerminalizes(u)
    BY Zenon, <2>7 DEF StopTerminalizes, Terminalize, TerminalizeState, Ends, MayFree
  <2> QED
    BY Zenon, <1>4, <2>1, <2>2, <2>3, <2>4, <2>5, <2>6, <2>7 DEF RunTask
<1>5. ASSUME BotStartedFrame \/ BotStoppedFrame PROVE FALSE
  BY <1>5 DEF BotStartedFrame, BotStoppedFrame, Generation
<1>6. ASSUME ErrorFrame PROVE FALSE
  BY Zenon, <1>6 DEF ErrorFrame
<1>7. ASSUME ConnectionClosed PROVE MayFree(t)
  BY Zenon, <1>7 DEF ConnectionClosed, MayFree
<1> QED
  BY Zenon, <1>1, <1>2, <1>3, <1>4, <1>5, <1>6, <1>7 DEF Next

\* Submitted audio keeps the slot: no deadline, flush-ack, provider error or
\* finalized interruption frees a slot whose audio may still be in the transport
\* output, leased or not.
THEOREM OutputBarrierHolds == Spec => OutputBarrier
<1>1. IInv /\ [Next]_vars =>
        [\A t \in Tokens : (Live(t) /\ gen[t].audio /\ ~Live(t)') => MayFree(t)]_vars
  BY Zenon, ExitFacts DEF vars, Live
<1> QED
  BY <1>1, Invariant, PTL DEF Spec, OutputBarrier, MayFree

\* A tombstoned generation is inert until it is reaped: no frame handler binds it,
\* plays it or clears its tombstone.
LEMMA TombstoneStep ==
    ASSUME IInv, Next, NEW t \in Tokens, gen[t].tombstoned, Live(t)'
    PROVE  /\ gen'[t].tombstoned
           /\ gen'[t].bound = gen[t].bound
           /\ gen'[t].audio = gen[t].audio
<1>0. Live(t) /\ gen[t] \in Generation /\ gen \in [Tokens -> Generation]
  BY Zenon, GenFacts, AbsentFacts DEF IInv, TasksAgree
<1>1. ASSUME NEW u \in Tokens, Scheduler(u)
      PROVE  /\ gen'[t].tombstoned /\ gen'[t].bound = gen[t].bound
             /\ gen'[t].audio = gen[t].audio
  BY <1>0, <1>1, AbsentFacts DEF Scheduler, TryAdmit, RecordInterruption, ReleaseGeneration,
     TerminalizeState, Generation, Live, IInv, OnlyUsed
<1>2. ASSUME NEW u \in Tokens, Frame(u)
      PROVE  /\ gen'[t].tombstoned /\ gen'[t].bound = gen[t].bound
             /\ gen'[t].audio = gen[t].audio
  <2>1. (Accepts(u) \/ BindContext(pendingToken, u)) => u # t
    BY Zenon, AcceptFacts
  <2> QED
    BY Zenon, <1>0, <1>2, <2>1, AbsentFacts DEF Frame, MarkerAtObserver, MarkerAtProcessor,
       TtsStartedFrame, TtsAudioFrame, TtsStoppedFrame, ProviderErrorEvent, FlushAckFrame,
       Terminalize, TerminalizeState, Live
<1>3. ASSUME NEW u \in Tokens, NEW k \in Kinds, RunTask(k, u)
      PROVE  /\ gen'[t].tombstoned /\ gen'[t].bound = gen[t].bound
             /\ gen'[t].audio = gen[t].audio
  <2>1. CASE gen' = gen
    BY Zenon, <1>0, <2>1
  <2>2. CASE gen' = [gen EXCEPT ![u] = Absent]
    BY Zenon, <1>0, <2>2, AbsentFacts DEF Live
  <2>3. CASE gen' = [gen EXCEPT ![u].teardown = TRUE]
    BY Zenon, <1>0, <2>3 DEF Generation
  <2>4. CASE BeginExit(k, u)
    <3> DEFINE h == [gen[u] EXCEPT !.disposition = Or(@, "delivery_unknown"),
                                   !.tombstoned = TRUE]
    <3>1. gen[u] \in Generation
      BY Zenon, <1>0
    <3>2. /\ h.tombstoned /\ h.bound = gen[u].bound /\ h.audio = gen[u].audio
          /\ LET c == [h EXCEPT !.cleanup = TRUE]
             IN  c.tombstoned /\ c.bound = gen[u].bound /\ c.audio = gen[u].audio
          /\ LET c == [gen[u] EXCEPT !.cleanup = TRUE]
             IN  /\ c.tombstoned = gen[u].tombstoned
                 /\ c.bound = gen[u].bound /\ c.audio = gen[u].audio
      BY Zenon, <3>1 DEF Generation
    <3> QED
      BY Zenon, <1>0, <2>4, <3>2 DEF BeginExit, BeginCleanup
  <2> QED
    BY Zenon, <1>3, <2>1, <2>2, <2>3, <2>4 DEF RunTask, SpeakReturns, SpeakRaises, Notify,
       BeginFinalize, TeardownRaises, FlushAckTimeout, CleanupReturns, CleanupRaises,
       RequestTeardown, ReleaseSubmission, FinalizeReturns, TeardownReturns,
       StopTerminalizes, Terminalize, TerminalizeState
<1>4. CASE BotStartedFrame \/ BotStoppedFrame
  BY <1>0, <1>4 DEF BotStartedFrame, BotStoppedFrame, Generation
<1>5. ASSUME NEW u \in Tokens, TimerFires(u) PROVE gen' = gen
  BY Zenon, <1>5 DEF TimerFires
<1>6. CASE ErrorFrame
  BY Zenon, <1>0, <1>6 DEF ErrorFrame
<1>7. CASE ConnectionClosed
  BY Zenon, <1>7, AbsentFacts DEF ConnectionClosed, Live
<1> QED
  BY Zenon, <1>0, <1>1, <1>2, <1>3, <1>4, <1>5, <1>6, <1>7 DEF Next

\* A tombstone is never undone and nothing more is accepted behind it.
THEOREM TombstoneFenceHolds == Spec => TombstoneFence
<1>1. IInv /\ [Next]_vars =>
        [\A t \in Tokens :
            gen[t].tombstoned =>
                \/ ~Live(t)'
                \/ /\ gen'[t].tombstoned
                   /\ gen'[t].bound = gen[t].bound
                   /\ gen'[t].audio = gen[t].audio]_vars
  BY Zenon, TombstoneStep DEF vars
<1> QED
  BY <1>1, Invariant, PTL DEF Spec, TombstoneFence

-----------------------------------------------------------------------------
(* Refinement *)

\* Reaping the holder is a Settle step of the slot.
LEMMA SettleStep ==
    ASSUME IInv, NEW t \in Tokens, NEW d, Live(t), TerminalizeState(t, d), closed' = closed,
           gen[t].disposition # "none" \/ d \in {"delivery_unknown", "delivery_completed"}
    PROVE  Slot!Next
<1>1. slotToken = t /\ slotToken # None /\ slotToken' = None
  BY Zenon, NoneAssumption DEF IInv, SoleOccupant, TerminalizeState
<1>2. gen[t].disposition \in Dispositions \cup {"none"}
  BY Zenon, GenFacts DEF Generation
<1>3. Verdict = gen[t].disposition /\ Verdict' = "none"
  BY Zenon, <1>1 DEF Verdict
<1>4. Slot!Settle(Or(gen[t].disposition, d))
  BY Zenon, <1>1, <1>2, <1>3 DEF Slot!Settle, TerminalizeState, Or
<1>5. Or(gen[t].disposition, d) \in Slot!Dispositions
  BY Zenon, <1>2 DEF Or, Slot!Dispositions, Dispositions
<1> QED
  BY Zenon, <1>4, <1>5 DEF Slot!Next

\* A step that changes neither slot, outcomes nor the holder's disposition stutters.
LEMMA StutterStep ==
    ASSUME IInv, UNCHANGED <<slotToken, outcome, closed>>,
           \A u \in Tokens : gen'[u].disposition = gen[u].disposition
    PROVE  UNCHANGED Slot!vars
<1>1. slotToken \in Tokens \cup {None}
  BY Zenon DEF IInv, TypeOK
<1>2. Verdict' = Verdict
  BY Zenon, <1>1 DEF Verdict
<1> QED
  BY Zenon, <1>2 DEF Slot!vars

\* Writing a disposition on the holder is a Record step.
LEMMA RecordStep ==
    ASSUME IInv, NEW t \in Tokens, NEW d \in {"paused", "interrupted", "delivery_unknown"},
           Live(t), UNCHANGED <<slotToken, outcome, closed>>,
           gen'[t].disposition = d, d = "delivery_unknown" => gen[t].disposition = "none"
    PROVE  Slot!Next
<1>1. slotToken = t /\ slotToken # None
  BY Zenon, NoneAssumption DEF IInv, SoleOccupant
<1>2. Slot!Record(d)
  BY Zenon, <1>1 DEF Slot!Record, Verdict
<1> QED
  BY Zenon, <1>2 DEF Slot!Next, Slot!Dispositions

\* Every step is a step of the slot, or leaves it alone.
LEMMA RefinementStep ==
    ASSUME IInv, [Next]_vars
    PROVE  [Slot!Next]_(Slot!vars)
<1> DEFINE Goal == Slot!Next \/ UNCHANGED Slot!vars
<1>0. /\ gen \in [Tokens -> Generation]
      /\ slotToken \in Tokens \cup {None}
  BY Zenon DEF IInv, TypeOK
<1>1. ASSUME NEW t \in Tokens, TryAdmit(t) PROVE Goal
  <2>1. outcome[t] = "none" /\ slotToken = None /\ slotToken' = t /\ t # None
    BY Zenon, <1>1, NoneAssumption DEF TryAdmit, IInv, OnlyUsed
  <2>2. gen'[t].disposition = "none"
    BY Zenon, <1>0, <1>1 DEF TryAdmit, Absent
  <2>3. Slot!Admit(t)
    BY Zenon, <1>1, <2>1, <2>2 DEF Slot!Admit, TryAdmit, Verdict, historyVars
  <2> QED
    BY Zenon, <2>3 DEF Slot!Next
<1>2. ASSUME NEW t \in Tokens, NEW d \in {"paused", "interrupted"}, RecordInterruption(t, d)
      PROVE  Goal
  <2>1. gen'[t].disposition = d /\ Live(t) /\ UNCHANGED <<slotToken, outcome, closed>>
    BY Zenon, <1>0, <1>2 DEF RecordInterruption, Generation, historyVars
  <2> QED
    BY Zenon, <2>1, RecordStep
<1>3. ASSUME NEW t \in Tokens, NEW d \in {"delivery_unknown", "delivery_completed"},
             ReleaseGeneration(t, d)
      PROVE  Goal
  BY Zenon, <1>3, SettleStep, StutterStep DEF ReleaseGeneration
<1>4. ASSUME NEW t \in Tokens, Frame(t) PROVE Goal
  <2>1. CASE FlushAckFrame(t)
    BY Zenon, <2>1, SettleStep DEF FlushAckFrame, FlushReleases, Terminalize, taskFrame
  <2>2. CASE ~FlushAckFrame(t)
    <3>1. UNCHANGED <<slotToken, outcome, closed>>
      BY Zenon, <1>4, <2>2 DEF Frame, MarkerAtObserver, MarkerAtProcessor, TtsStartedFrame,
         TtsAudioFrame, TtsStoppedFrame, ProviderErrorEvent, historyVars
    <3>2. \A u \in Tokens : gen'[u].disposition = gen[u].disposition
      BY <1>0, <1>4, <2>2 DEF Frame, MarkerAtObserver, MarkerAtProcessor, TtsStartedFrame,
         TtsAudioFrame, TtsStoppedFrame, ProviderErrorEvent, Generation
    <3> QED
      BY Zenon, <3>1, <3>2, StutterStep
  <2> QED
    BY Zenon, <2>1, <2>2
<1>5. ASSUME NEW t \in Tokens, NEW k \in Kinds, RunTask(k, t) PROVE Goal
  <2>1. CASE BeginExit(k, t)
    <3>1. UNCHANGED <<slotToken, outcome, closed>>
      BY Zenon, <2>1 DEF BeginExit, historyVars, taskFrame
    <3>2. \A u \in Tokens \ {t} : gen'[u] = gen[u]
      BY Zenon, <1>0, <2>1 DEF BeginExit, BeginCleanup
    <3>3. \/ gen'[t].disposition = gen[t].disposition
          \/ /\ Live(t) /\ gen[t].disposition = "none"
             /\ gen'[t].disposition = "delivery_unknown"
      <4> DEFINE h == [gen[t] EXCEPT !.disposition = Or(@, "delivery_unknown"),
                                     !.tombstoned = TRUE]
      <4>1. gen[t] \in Generation
        BY Zenon, <1>0
      <4>2. /\ h.disposition = Or(gen[t].disposition, "delivery_unknown")
            /\ [h EXCEPT !.cleanup = TRUE].disposition = h.disposition
            /\ [gen[t] EXCEPT !.cleanup = TRUE].disposition = gen[t].disposition
        BY Zenon, <4>1 DEF Generation
      <4> QED
        BY Zenon, <1>0, <2>1, <4>2 DEF BeginExit, BeginCleanup, Or
    <3> QED
      BY Zenon, <3>1, <3>2, <3>3, RecordStep, StutterStep
  <2>2. CASE FinalizeReturns(t)
    <3>1. Live(t) => gen[t].disposition # "none"
      BY Zenon, <2>2 DEF FinalizeReturns, IInv, TasksAgree, Places
    <3> QED
      BY Zenon, <2>2, <3>1, SettleStep, StutterStep DEF FinalizeReturns, Terminalize, taskFrame,
         historyVars
  <2>3. CASE TeardownReturns(k, t) \/ StopTerminalizes(t)
    BY Zenon, <2>3, SettleStep, StutterStep DEF TeardownReturns, StopTerminalizes, Terminalize,
       taskFrame, historyVars
  <2>4. CASE ReleaseSubmission(t)
    BY Zenon, <2>4, SettleStep, StutterStep DEF ReleaseSubmission, taskFrame
  <2>5. CASE FlushAckTimeout(t) \/ CleanupReturns(k, t) \/ CleanupRaises(k, t)
    <3>1. UNCHANGED <<slotToken, outcome, closed>>
      BY Zenon, <2>5 DEF FlushAckTimeout, CleanupReturns, CleanupRaises, historyVars, taskFrame
    <3>2. \A u \in Tokens : gen'[u].disposition = gen[u].disposition
      BY <1>0, <2>5 DEF FlushAckTimeout, CleanupReturns, CleanupRaises, RequestTeardown,
         Generation
    <3> QED
      BY Zenon, <3>1, <3>2, StutterStep
  <2>6. CASE SpeakReturns(t) \/ SpeakRaises(t) \/ BeginFinalize(t) \/ Notify(t)
             \/ TeardownRaises(k, t)
    BY Zenon, <2>6, StutterStep DEF SpeakReturns, SpeakRaises, BeginFinalize, Notify,
       TeardownRaises, historyVars, taskFrame
  <2> QED
    BY Zenon, <1>5, <2>1, <2>2, <2>3, <2>4, <2>5, <2>6 DEF RunTask
<1>6. CASE BotStartedFrame \/ BotStoppedFrame
  <2>1. UNCHANGED <<slotToken, outcome, closed>>
    BY Zenon, <1>6 DEF BotStartedFrame, BotStoppedFrame, historyVars
  <2>2. \A u \in Tokens : gen'[u].disposition = gen[u].disposition
    BY <1>0, <1>6 DEF BotStartedFrame, BotStoppedFrame, Generation
  <2> QED
    BY Zenon, <2>1, <2>2, StutterStep
<1>7. CASE ErrorFrame
  BY Zenon, <1>7, StutterStep DEF ErrorFrame, historyVars
<1>8. ASSUME NEW t \in Tokens, TimerFires(t) PROVE Goal
  BY Zenon, <1>8, StutterStep DEF TimerFires, historyVars
<1>9. CASE ConnectionClosed
  <2>1. Slot!Close
    BY Zenon, <1>9 DEF ConnectionClosed, Slot!Close, Verdict, historyVars
  <2> QED
    BY Zenon, <2>1 DEF Slot!Next
<1>10. CASE UNCHANGED vars
  BY Zenon, <1>10, StutterStep DEF vars
<1> QED
  BY Zenon, <1>1, <1>2, <1>3, <1>4, <1>5, <1>6, <1>7, <1>8, <1>9, <1>10 DEF Next, Scheduler

\* The coordinator, with its deadlines, callbacks, cleanups and teardowns, is an
\* implementation of the one-holder slot it promises to the scheduler.
THEOREM Refinement == Spec => ImplementsSlot
<1>1. Init => Slot!Init
  BY Zenon DEF Init, Slot!Init, Verdict
<1>2. IInv /\ [Next]_vars => [Slot!Next]_(Slot!vars)
  BY Zenon, RefinementStep
<1> QED
  BY <1>1, <1>2, Invariant, PTL DEF Spec, ImplementsSlot, Slot!Spec

-----------------------------------------------------------------------------
(* LocalSynthesis *)

\* Two sequences are equal if they have the same elements in the same places.
LEMMA SameSeq ==
  ASSUME NEW S, NEW s \in Seq(S), NEW t \in Seq(S), Len(s) = Len(t),
         \A i \in 1..Len(s) : s[i] = t[i]
  PROVE  s = t
OBVIOUS

\* Between the binding of the client and the last event of the stream; what
\* was committed is still owed except in the first of these places.
Streaming == {"starting", "started", "reading", "delta"}
Bound == Streaming \cup {"sending"}

\* The answers a client may still be owed.
Nothing == <<>>
Owes(u) == <<u>>

\* Utterances come one after the other: those before the current one are over,
\* or abandoned and fenced; only the current one ever reads or dials.
InTurn ==
    /\ \A u \in Utterances :
          /\ pc[u] = "idle" <=> u > current
          /\ mine[u] = Null <=> u > current
          /\ u < current => pc[u] = "over" \/ (u \in abandoned /\ u \in hooked)
          /\ u \in abandoned => pc[u] \in AtYield \cup {"aborting", "over"}
          /\ u \in hooked => u \in abandoned \/ pc[u] = "over"
    /\ made <= current + 1

\* The service's client is the current utterance's.  Once dialled it is open and
\* bound to the utterance.  A fenced stream has lost its client before the
\* successor starts.
ClientAgrees ==
    /\ client \in {Null, mine[current]}
    /\ client # Null /\ pc[current] \notin {"dialing", "refusing"} => client \in ws
    /\ Running(current) /\ pc[current] \in Bound \cup {"dialing", "greeting"} => client = mine[current]
    /\ \A u \in Utterances :
          /\ pc[u] \in Bound /\ client = mine[u] => contexts[u] = mine[u]
          /\ u \in hooked /\ pc[u] \in Bound => client # mine[u]

\* It owes nothing but the current utterance's own audio.
OwedAgrees ==
    /\ client # Null =>
          owed[client] = IF pc[current] \in Streaming THEN Owes(current) ELSE Nothing
    /\ owed \in [Clients -> {Nothing} \cup {Owes(u) : u \in Utterances}]
    /\ \A c \in Clients : c > made => owed[c] = Nothing

\* What an utterance may have reported.
Silent == <<>>
Begun == <<"started">>
Ended == <<"started", "ended">>
Lost == <<"unknown">>
BegunLost == <<"started", "unknown">>

\* What an utterance has reported, by where it is.
Reported ==
    /\ events \in [Utterances -> {Silent, Begun, Ended, Lost, BegunLost}]
    /\ \A u \in Utterances :
          /\ pc[u] \in {"idle", "dialing", "greeting", "refusing", "sending"} => events[u] = Silent
          /\ pc[u] \in Streaming => events[u] = Begun
          /\ pc[u] \in {"ending", "stopped"} => events[u] = Ended
          /\ pc[u] = "aborting" => events[u] \in {Silent, Begun}
          /\ pc[u] = "over" /\ u \notin cut => events[u] # Begun
          /\ u \in cut => pc[u] = "over" /\ events[u] \in {Silent, Begun}
          /\ u \in completed <=> events[u] = Ended

HeardOwn == heard \in [Utterances -> SUBSET Utterances] /\ \A u \in Utterances : heard[u] \subseteq {u}

SynthesisInv == SynthesisTypeOK /\ InTurn /\ ClientAgrees /\ OwedAgrees /\ Reported /\ HeardOwn

-----------------------------------------------------------------------------
(* The sequences of the model are one of a few *)

\* What a client owes: nothing, or the answer to one utterance.
LEMMA Answers ==
  ASSUME NEW u
  PROVE  /\ Append(Nothing, u) = Owes(u) /\ Head(Owes(u)) = u /\ Tail(Owes(u)) = Nothing
         /\ Nothing # Owes(u)
  BY DEF Nothing, Owes

\* A second report follows the first.
LEMMA Pair ==
  ASSUME NEW x, NEW y
  PROVE  Append(<<x>>, y) = <<x, y>>
<1> DEFINE s == Append(<<x>>, y)
           t == <<x, y>>
<1>1. <<x>> \in Seq({x, y}) /\ Len(<<x>>) = 1 /\ <<x>>[1] = x
  OBVIOUS
<1>2. t \in Seq({x, y}) /\ Len(t) = 2 /\ t[1] = x /\ t[2] = y
  OBVIOUS
<1>3. s \in Seq({x, y}) /\ Len(s) = 2 /\ s[1] = x /\ s[2] = y
  BY <1>1
<1>4. \A i \in 1..2 : s[i] = t[i]
  BY <1>2, <1>3
<1>5. s = t
  <2> HIDE DEF s, t
  <2> QED
    BY Zenon, <1>2, <1>3, <1>4, SameSeq
<1> QED
  BY Zenon, <1>5

\* The reports of an utterance are one of five, told apart.
LEMMA Reports ==
  /\ Append(Silent, "started") = Begun /\ Append(Begun, "ended") = Ended
  /\ Append(Silent, "unknown") = Lost /\ Append(Begun, "unknown") = BegunLost
  /\ Silent \notin {Begun, Ended, Lost, BegunLost} /\ Begun \notin {Ended, Lost, BegunLost}
  /\ Ended \notin {Lost, BegunLost}
<1>1. Append(Silent, "started") = Begun /\ Append(Silent, "unknown") = Lost
  BY DEF Silent, Begun, Lost
<1>2. Append(Begun, "ended") = Ended /\ Append(Begun, "unknown") = BegunLost
  BY Zenon, Pair DEF Begun, Ended, BegunLost
<1>3. Silent \notin {Begun, Ended, Lost, BegunLost}
  BY Zenon DEF Silent, Begun, Ended, Lost, BegunLost
<1>4. Begun \notin {Ended, Lost, BegunLost}
  BY Zenon DEF Begun, Ended, Lost, BegunLost
<1>5. Ended \notin {Lost, BegunLost}
  BY Zenon DEF Ended, Lost, BegunLost
<1> QED
  BY Zenon, <1>1, <1>2, <1>3, <1>4, <1>5

\* What _abort_client does to the service.
AbortEffect(c) ==
    /\ client' \in {client, Null} /\ client' # c /\ (client # c => client' = client)
    /\ \A v \in Utterances :
          contexts'[v] \in {contexts[v], Null} /\ (contexts[v] # c => contexts'[v] = contexts[v])
    /\ contexts' \in [Utterances -> 0..made] /\ ws' = ws \ {c}
    /\ socket' \in [Clients -> {"none", "open", "closing", "closed"}]
    /\ ws' = {d \in Clients : socket'[d] = "open"}

\* _abort_client closes one socket and forgets it wherever it is named.
LEMMA Aborting ==
  ASSUME MaxUtterances \in Nat, SynthesisTypeOK, NEW c \in Clients, AbortClient(c)
  PROVE  AbortEffect(c)
<1>1. c # Null /\ made \in Nat
  BY DEF Clients, Null, SynthesisTypeOK
<1>2. /\ client' \in {client, Null} /\ client' # c /\ (client # c => client' = client)
      /\ \A v \in Utterances : contexts'[v] \in {contexts[v], Null} /\ (contexts[v] # c => contexts'[v] = contexts[v])
  BY Zenon, <1>1 DEF AbortClient
<1>3. contexts' \in [Utterances -> 0..made]
  BY <1>1 DEF AbortClient, SynthesisTypeOK, Null
<1>4. /\ socket' \in [Clients -> {"none", "open", "closing", "closed"}]
      /\ ws' = ws \ {c} /\ ws' = {d \in Clients : socket'[d] = "open"}
  BY Zenon DEF AbortClient, WireClose, SynthesisTypeOK
<1> QED
  BY Zenon, <1>2, <1>3, <1>4 DEF AbortEffect

\* An utterance that has started has a client.
Started ==
    /\ \A u \in Utterances : u \in Nat /\ (pc[u] # "idle" => mine[u] \in Clients /\ mine[u] # Null)
    /\ Null \notin Clients /\ Null \in 0..made /\ made \in Nat /\ current \in Nat /\ client \in Clients \cup {Null}
    /\ \A u \in Utterances : contexts[u] \in Clients \cup {Null}
    /\ \A c \in Clients : c \in Nat
    /\ \A u \in Utterances :
          /\ pc[u] \in AtAwait \cup {"refusing"} => u = current /\ u \notin abandoned
          /\ u # current =>
                \/ pc[u] \in {"idle", "over"}
                \/ u \in abandoned /\ u \in hooked /\ pc[u] \in AtYield \cup {"aborting"}

\* An utterance past its start has a client, and an older one is over or only to be aborted.
LEMMA HasClient ==
  ASSUME MaxUtterances \in Nat, SynthesisInv
  PROVE  Started /\ \A c \in Clients : AbortClient(c) => AbortEffect(c)
<1>1. /\ \A u \in Utterances : u \in Nat /\ (pc[u] # "idle" => mine[u] \in Clients /\ mine[u] # Null)
      /\ Null \notin Clients /\ Null \in 0..made /\ made \in Nat /\ current \in Nat
      /\ client \in Clients \cup {Null} /\ \A u \in Utterances : contexts[u] \in Clients \cup {Null}
      /\ \A c \in Clients : c \in Nat
  BY DEF SynthesisInv, SynthesisTypeOK, InTurn, Utterances, Clients, Null
<1>2. ASSUME NEW u \in Utterances, u # current
      PROVE  \/ pc[u] \in {"idle", "over"}
             \/ u \in abandoned /\ u \in hooked /\ pc[u] \in AtYield \cup {"aborting"}
  <2>1. u < current \/ u > current
    BY <1>1, <1>2
  <2> QED
    BY Zenon, <2>1 DEF SynthesisInv, InTurn
<1>3. ASSUME NEW u \in Utterances, pc[u] \in AtAwait \cup {"refusing"}
      PROVE  u = current /\ u \notin abandoned
  BY Zenon, <1>2, <1>3 DEF SynthesisInv, InTurn, AtAwait, AtYield
<1>4. Started
  BY Zenon, <1>1, <1>2, <1>3 DEF Started
<1> QED
  BY Zenon, <1>4, Aborting DEF SynthesisInv

-----------------------------------------------------------------------------
(* Every step keeps the invariant *)

\* Every step keeps every variable within its type.
LEMMA TypeStep ==
  ASSUME MaxUtterances \in Nat, SynthesisInv, [SynthesisNext]_synthesisVars
  PROVE  SynthesisTypeOK'
<1>0. Started /\ \A c \in Clients : AbortClient(c) => AbortEffect(c)
  BY Zenon, HasClient
<1> USE <1>0 DEF Started, SynthesisInv, SynthesisTypeOK, InTurn, pipecat, service, local, wire, history, Goto, AtYield, AtAwait, Failing
<1>1. ASSUME NEW u \in Utterances, Dialed(u) PROVE SynthesisTypeOK'
  BY Zenon, <1>1 DEF Dialed
<1>2. ASSUME NEW u \in Utterances, Greeted(u) PROVE SynthesisTypeOK'
  BY <1>2 DEF Greeted
<1>3. ASSUME NEW u \in Utterances, ConnectFails(u) PROVE SynthesisTypeOK'
  BY <1>3 DEF ConnectFails, WireClose
<1>4. ASSUME NEW u \in Utterances, Refused(u) PROVE SynthesisTypeOK'
  <2>1. AbortEffect(mine[u])
    BY Zenon, <1>4 DEF Refused
  <2> QED
    BY <1>4, <2>1 DEF AbortEffect, Refused
<1>5. ASSUME NEW u \in Utterances, Committed(u) PROVE SynthesisTypeOK'
  BY Zenon, <1>5 DEF Committed
<1>6. ASSUME NEW u \in Utterances, YieldStarted(u) PROVE SynthesisTypeOK'
  BY Zenon, <1>6 DEF YieldStarted
<1>7. ASSUME NEW u \in Utterances, Resumed(u) PROVE SynthesisTypeOK'
  <2>1. contexts' \in [Utterances -> 0..made]
    BY Zenon, <1>7 DEF Resumed
  <2> QED
    BY Zenon, <1>7, <2>1 DEF Resumed
<1>8. ASSUME NEW u \in Utterances, ReadDelta(u) PROVE SynthesisTypeOK'
  BY Zenon, <1>8 DEF ReadDelta, Reads
<1>9. ASSUME NEW u \in Utterances, ReadDone(u) PROVE SynthesisTypeOK'
  BY Zenon, <1>9 DEF ReadDone, Reads
<1>10. ASSUME NEW u \in Utterances, YieldStopped(u) PROVE SynthesisTypeOK'
  BY Zenon, <1>10 DEF YieldStopped
<1>11. ASSUME NEW u \in Utterances, Raises(u) PROVE SynthesisTypeOK'
  <2>1. CASE u \in completed
    <3>1. contexts' \in [Utterances -> 0..made]
      BY ZenonT(60), <1>11, <2>1 DEF Raises, Finally
    <3> QED
      BY ZenonT(60), <1>11, <2>1, <3>1 DEF Raises, Finally
  <2>2. CASE u \notin completed
    <3>1. AbortEffect(mine[u]) /\ pc' = [pc EXCEPT ![u] = "aborting"]
      BY Zenon, <1>11, <2>2 DEF Raises, Finally
    <3> QED
      BY <1>11, <3>1 DEF AbortEffect, Raises
  <2> QED
    BY Zenon, <2>1, <2>2
<1>12. ASSUME NEW u \in Utterances, Aborted(u) PROVE SynthesisTypeOK'
  BY Zenon, <1>12 DEF Aborted
<1>13. ASSUME NEW u \in Utterances, CloseAbandoned(u) PROVE SynthesisTypeOK'
  <2>1. CASE u \in completed
    <3>1. contexts' \in [Utterances -> 0..made]
      BY ZenonT(60), <1>13, <2>1 DEF CloseAbandoned, Finally
    <3> QED
      BY Zenon, <1>13, <2>1, <3>1 DEF CloseAbandoned, Finally
  <2>2. CASE u \notin completed
    <3>1. AbortEffect(mine[u]) /\ pc' = [pc EXCEPT ![u] = "aborting"]
      BY Zenon, <1>13, <2>2 DEF CloseAbandoned, Finally
    <3> QED
      BY <1>13, <3>1 DEF AbortEffect, CloseAbandoned
  <2> QED
    BY Zenon, <2>1, <2>2
<1>14. ASSUME NEW u \in Utterances, Start(u) PROVE SynthesisTypeOK'
  <2>1. CASE client # Null
    BY <1>14, <2>1 DEF Start
  <2>2. CASE client = Null
    <3>1. made' = made + 1 /\ made' \in Clients
      BY <1>14, <2>2 DEF Start, Clients, Utterances
    <3>2. 0..made \subseteq 0..made' /\ made' \in 0..made'
      BY <3>1
    <3> QED
      BY <1>14, <2>2, <3>1, <3>2 DEF Start
  <2> QED
    BY Zenon, <2>1, <2>2
<1>15. ASSUME NEW u \in Utterances, Abandon(u) PROVE SynthesisTypeOK'
  BY Zenon, <1>15 DEF Abandon
<1>16. ASSUME NEW u \in Utterances, Interrupted(u) PROVE SynthesisTypeOK'
  <2>1. CASE contexts[u] = Null
    BY Zenon, <1>16, <2>1 DEF Interrupted, Fence
  <2>2. CASE contexts[u] # Null
    <3>1. AbortEffect(contexts[u])
      BY Zenon, <1>16, <2>2 DEF Interrupted, Fence
    <3> QED
      BY <1>16, <3>1 DEF AbortEffect, Interrupted
  <2> QED
    BY Zenon, <2>1, <2>2
<1>17. ASSUME NEW c \in Clients, SocketCloses(c) PROVE SynthesisTypeOK'
  BY Zenon, <1>17 DEF SocketCloses
<1>18. CASE Cleanup
  <2>1. CASE client = Null
    BY Zenon, <1>18, <2>1 DEF Cleanup
  <2>2. CASE client # Null
    <3>1. AbortEffect(client)
      BY Zenon, <1>18, <2>2 DEF Cleanup
    <3> QED
      BY ZenonT(60), <1>18, <3>1 DEF AbortEffect, Cleanup
  <2> QED
    BY Zenon, <2>1, <2>2
<1>19. CASE UNCHANGED synthesisVars
  BY Zenon, <1>19 DEF synthesisVars
<1>20. ASSUME NEW u \in Utterances, AbortCut(u) PROVE SynthesisTypeOK'
  BY Zenon, <1>20 DEF AbortCut
<1> QED
  BY Zenon, <1>1, <1>2, <1>3, <1>4, <1>5, <1>6, <1>7, <1>8, <1>9, <1>10, <1>11, <1>12, <1>13, <1>14, <1>15, <1>16, <1>17, <1>18, <1>19, <1>20 DEF SynthesisNext, Step, synthesisVars

\* Every step keeps the utterances in turn.
LEMMA InTurnStep ==
  ASSUME MaxUtterances \in Nat, SynthesisInv, [SynthesisNext]_synthesisVars
  PROVE  InTurn'
<1>0. Started /\ \A c \in Clients : AbortClient(c) => AbortEffect(c)
  BY Zenon, HasClient
<1> USE <1>0 DEF Started, SynthesisInv, SynthesisTypeOK, InTurn, pipecat, service, local, wire, history, Goto, AtYield, AtAwait, Failing
<1>1. ASSUME NEW u \in Utterances, Dialed(u) PROVE InTurn'
  BY Zenon, <1>1 DEF Dialed
<1>2. ASSUME NEW u \in Utterances, Greeted(u) PROVE InTurn'
  BY Zenon, <1>2 DEF Greeted
<1>3. ASSUME NEW u \in Utterances, ConnectFails(u) PROVE InTurn'
  BY Zenon, <1>3 DEF ConnectFails, WireClose
<1>4. ASSUME NEW u \in Utterances, Refused(u) PROVE InTurn'
  BY <1>4 DEF AbortEffect, Refused
<1>5. ASSUME NEW u \in Utterances, Committed(u) PROVE InTurn'
  BY Zenon, <1>5 DEF Committed
<1>6. ASSUME NEW u \in Utterances, YieldStarted(u) PROVE InTurn'
  BY Zenon, <1>6 DEF YieldStarted
<1>7. ASSUME NEW u \in Utterances, Resumed(u) PROVE InTurn'
  BY Zenon, <1>7 DEF Resumed
<1>8. ASSUME NEW u \in Utterances, ReadDelta(u) PROVE InTurn'
  BY ZenonT(60), <1>8 DEF ReadDelta, Reads
<1>9. ASSUME NEW u \in Utterances, ReadDone(u) PROVE InTurn'
  BY ZenonT(60), <1>9 DEF ReadDone, Reads
<1>10. ASSUME NEW u \in Utterances, YieldStopped(u) PROVE InTurn'
  BY Zenon, <1>10 DEF YieldStopped
<1>11. ASSUME NEW u \in Utterances, Raises(u) PROVE InTurn'
  BY <1>11 DEF AbortEffect, Raises, Finally
<1>12. ASSUME NEW u \in Utterances, Aborted(u) PROVE InTurn'
  BY Zenon, <1>12 DEF Aborted
<1>13. ASSUME NEW u \in Utterances, CloseAbandoned(u) PROVE InTurn'
  BY <1>13 DEF AbortEffect, CloseAbandoned, Finally
<1>14. ASSUME NEW u \in Utterances, Start(u) PROVE InTurn'
  BY <1>14 DEF Start, MayStart
<1>15. ASSUME NEW u \in Utterances, Abandon(u) PROVE InTurn'
  BY Zenon, <1>15 DEF Abandon
<1>16. ASSUME NEW u \in Utterances, Interrupted(u) PROVE InTurn'
  BY Zenon, <1>16 DEF AbortEffect, Interrupted, Fence
<1>17. CASE UNCHANGED <<pc, abandoned, hooked, current, made, mine>>
  BY Zenon, <1>17
<1>19. ASSUME NEW u \in Utterances, AbortCut(u) PROVE InTurn'
  BY Zenon, <1>19 DEF AbortCut
<1> QED
  BY Zenon, <1>1, <1>2, <1>3, <1>4, <1>5, <1>6, <1>7, <1>8, <1>9, <1>10, <1>11, <1>12, <1>13, <1>14, <1>15, <1>16, <1>17, <1>19 DEF SynthesisNext, Step, synthesisVars, SocketCloses, Cleanup, AbortClient, WireClose

\* Every step keeps reports and places in agreement.
LEMMA ReportedStep ==
  ASSUME MaxUtterances \in Nat, SynthesisInv, [SynthesisNext]_synthesisVars
  PROVE  Reported'
<1>0. Started /\ \A c \in Clients : AbortClient(c) => AbortEffect(c)
  BY Zenon, HasClient
<1> USE <1>0, Reports DEF Started, SynthesisInv, SynthesisTypeOK, InTurn, Reported, Streaming, pipecat, service, local, wire, history, Goto, AtYield, AtAwait, Failing
<1>1. ASSUME NEW u \in Utterances, Dialed(u) PROVE Reported'
  BY Zenon, <1>1 DEF Dialed
<1>2. ASSUME NEW u \in Utterances, Greeted(u) PROVE Reported'
  BY <1>2 DEF Greeted
<1>3. ASSUME NEW u \in Utterances, ConnectFails(u) PROVE Reported'
  BY Zenon, <1>3 DEF ConnectFails, WireClose
<1>4. ASSUME NEW u \in Utterances, Refused(u) PROVE Reported'
  BY <1>4 DEF AbortEffect, Refused
<1>5. ASSUME NEW u \in Utterances, Committed(u) PROVE Reported'
  BY Zenon, <1>5 DEF Committed
<1>6. ASSUME NEW u \in Utterances, YieldStarted(u) PROVE Reported'
  BY Zenon, <1>6 DEF YieldStarted
<1>7. ASSUME NEW u \in Utterances, Resumed(u) PROVE Reported'
  BY Zenon, <1>7 DEF Resumed
<1>8. ASSUME NEW u \in Utterances, ReadDelta(u) PROVE Reported'
  BY ZenonT(60), <1>8 DEF ReadDelta, Reads
<1>9. ASSUME NEW u \in Utterances, ReadDone(u) PROVE Reported'
  <2>1. events' = [events EXCEPT ![u] = Ended] /\ pc' = [pc EXCEPT ![u] = "ending"]
        /\ completed' = completed \cup {u} /\ cut' = cut /\ u \notin cut
    BY Zenon, <1>9 DEF ReadDone, Reads
  <2> QED
    BY Zenon, <2>1
<1>10. ASSUME NEW u \in Utterances, YieldStopped(u) PROVE Reported'
  BY Zenon, <1>10 DEF YieldStopped
<1>11. ASSUME NEW u \in Utterances, Raises(u) PROVE Reported'
  <2>1. CASE u \in completed
    BY <1>11, <2>1 DEF Raises, Finally
  <2>2. CASE u \notin completed
    BY SMTT(30), <1>11, <2>2 DEF Raises, Finally
  <2> QED
    BY Zenon, <2>1, <2>2
<1>12. ASSUME NEW u \in Utterances, Aborted(u) PROVE Reported'
  BY Zenon, <1>12 DEF Aborted
<1>13. ASSUME NEW u \in Utterances, CloseAbandoned(u) PROVE Reported'
  BY SMTT(30), <1>13 DEF AbortEffect, CloseAbandoned, Finally
<1>14. ASSUME NEW u \in Utterances, Start(u) PROVE Reported'
  BY SMTT(30), <1>14 DEF Start, MayStart
<1>15. ASSUME NEW u \in Utterances, Abandon(u) PROVE Reported'
  BY Zenon, <1>15 DEF Abandon
<1>16. ASSUME NEW u \in Utterances, Interrupted(u) PROVE Reported'
  BY Zenon, <1>16 DEF AbortEffect, Interrupted, Fence
<1>17. CASE UNCHANGED <<pc, events, completed, cut>>
  BY Zenon, <1>17
<1>19. ASSUME NEW u \in Utterances, AbortCut(u) PROVE Reported'
  <2>1. events' = events /\ completed' = completed /\ cut' = cut \cup {u}
        /\ pc' = [pc EXCEPT ![u] = "over"] /\ events[u] \in {Silent, Begun}
    BY Zenon, <1>19 DEF AbortCut
  <2> QED
    BY ZenonT(60), <2>1
<1> QED
  BY Zenon, <1>1, <1>2, <1>3, <1>4, <1>5, <1>6, <1>7, <1>8, <1>9, <1>10, <1>11, <1>12, <1>13, <1>14, <1>15, <1>16, <1>17, <1>19 DEF SynthesisNext, Step, synthesisVars, SocketCloses, Cleanup, AbortClient, WireClose

\* An utterance that reads, reads its own answer.
LEMMA HeardStep ==
  ASSUME MaxUtterances \in Nat, SynthesisInv, [SynthesisNext]_synthesisVars
  PROVE  HeardOwn'
<1>0. Started /\ \A c \in Clients : AbortClient(c) => AbortEffect(c)
  BY Zenon, HasClient
<1> USE <1>0, Answers DEF Started, SynthesisInv, SynthesisTypeOK, InTurn, ClientAgrees, OwedAgrees, Running, Bound, Streaming, HeardOwn, pipecat, service, local, wire, history, Goto, AtYield, AtAwait, Failing
<1>1. ASSUME NEW u \in Utterances, ReadDelta(u) PROVE HeardOwn'
  <2>1. u = current /\ Running(u)
    BY Zenon, <1>1 DEF ReadDelta, Reads
  <2>2. Head(owed[mine[u]]) = u
    BY <1>1, <2>1 DEF ReadDelta, Reads
  <2> QED
    BY <1>1, <2>2 DEF ReadDelta, Reads
<1>2. ASSUME NEW u \in Utterances, ReadDone(u) PROVE HeardOwn'
  <2>1. u = current /\ Running(u)
    BY Zenon, <1>2 DEF ReadDone, Reads
  <2>2. Head(owed[mine[u]]) = u
    BY <1>2, <2>1 DEF ReadDone, Reads
  <2> QED
    BY <1>2, <2>2 DEF ReadDone, Reads
<1>3. CASE UNCHANGED heard
  BY Zenon, <1>3
<1> QED
  BY Zenon, <1>1, <1>2, <1>3 DEF SynthesisNext, Step, synthesisVars, Dialed, Greeted, ConnectFails, WireClose, Refused, AbortClient, WireClose, Committed, YieldStarted, Resumed, YieldStopped, Raises, Finally, AbortClient, WireClose, Aborted, AbortCut, CloseAbandoned, Finally, AbortClient, WireClose, Start, MayStart, Abandon, Interrupted, Fence, AbortClient, WireClose, SocketCloses, Cleanup, AbortClient, WireClose

\* Every step keeps the client the current utterance's.
LEMMA ClientStep ==
  ASSUME MaxUtterances \in Nat, SynthesisInv, [SynthesisNext]_synthesisVars
  PROVE  ClientAgrees'
<1>0. Started /\ \A c \in Clients : AbortClient(c) => AbortEffect(c)
  BY Zenon, HasClient
<1> USE <1>0 DEF Started, SynthesisInv, SynthesisTypeOK, InTurn, ClientAgrees, Reported, Running, Bound, Streaming, pipecat, service, local, wire, history, Goto, AtYield, AtAwait, Failing
<1>1. ASSUME NEW u \in Utterances, Dialed(u) PROVE ClientAgrees'
  BY Zenon, <1>1 DEF Dialed
<1>2. ASSUME NEW u \in Utterances, Greeted(u) PROVE ClientAgrees'
  <2>1. CASE u = 0
    BY ZenonT(60), <1>2, <2>1 DEF Greeted
  <2>2. CASE u # 0
    BY <1>2, <2>2 DEF Greeted
  <2> QED
    BY Zenon, <2>1, <2>2
<1>3. ASSUME NEW u \in Utterances, ConnectFails(u) PROVE ClientAgrees'
  BY ZenonT(60), <1>3 DEF ConnectFails, WireClose
<1>4. ASSUME NEW u \in Utterances, Refused(u) PROVE ClientAgrees'
  BY <1>4 DEF AbortEffect, Refused
<1>5. ASSUME NEW u \in Utterances, Committed(u) PROVE ClientAgrees'
  BY Zenon, <1>5 DEF Committed
<1>6. ASSUME NEW u \in Utterances, YieldStarted(u) PROVE ClientAgrees'
  BY Zenon, <1>6 DEF YieldStarted
<1>7. ASSUME NEW u \in Utterances, Resumed(u) PROVE ClientAgrees'
  BY Zenon, <1>7 DEF Resumed
<1>8. ASSUME NEW u \in Utterances, ReadDelta(u) PROVE ClientAgrees'
  BY Zenon, <1>8 DEF ReadDelta, Reads
<1>9. ASSUME NEW u \in Utterances, ReadDone(u) PROVE ClientAgrees'
  BY ZenonT(60), <1>9 DEF ReadDone, Reads
<1>10. ASSUME NEW u \in Utterances, YieldStopped(u) PROVE ClientAgrees'
  BY Zenon, <1>10 DEF YieldStopped
<1>11. ASSUME NEW u \in Utterances, Raises(u) PROVE ClientAgrees'
  BY <1>11 DEF AbortEffect, Raises, Finally
<1>12. ASSUME NEW u \in Utterances, Aborted(u) PROVE ClientAgrees'
  BY Zenon, <1>12 DEF Aborted
<1>13. ASSUME NEW u \in Utterances, CloseAbandoned(u) PROVE ClientAgrees'
  BY <1>13 DEF AbortEffect, CloseAbandoned, Finally
<1>14. ASSUME NEW u \in Utterances, Start(u) PROVE ClientAgrees'
  <2>1. \A v \in Utterances : v # u => mine'[v] = mine[v] /\ pc'[v] = pc[v]
    BY <1>14 DEF Start
  <2>2. current' = u /\ u \notin hooked /\ u \notin abandoned /\ pc[u] = "idle" /\ UNCHANGED <<hooked, ws>>
    BY <1>14 DEF Start
  <2>3. CASE client # Null
    BY <1>14, <2>1, <2>2, <2>3 DEF Start, MayStart
  <2>4. CASE client = Null
    <3>1. client' = made + 1 /\ mine'[u] = made + 1 /\ pc'[u] = "dialing" /\ UNCHANGED contexts
      BY Zenon, <1>14, <2>4 DEF Start
    <3>2. \A v \in Utterances : mine[v] # made + 1
      OBVIOUS
    <3> QED
      BY Zenon, <2>1, <2>2, <3>1, <3>2
  <2> QED
    BY Zenon, <2>3, <2>4
<1>15. ASSUME NEW u \in Utterances, Abandon(u) PROVE ClientAgrees'
  BY Zenon, <1>15 DEF Abandon
<1>16. ASSUME NEW u \in Utterances, Interrupted(u) PROVE ClientAgrees'
  BY <1>16 DEF AbortEffect, Interrupted, Fence
<1>17. CASE Cleanup
  BY <1>17 DEF AbortEffect, Cleanup
<1>18. CASE UNCHANGED <<pc, abandoned, hooked, current, client, contexts, mine, ws>>
  BY Zenon, <1>18
<1>19. ASSUME NEW u \in Utterances, AbortCut(u) PROVE ClientAgrees'
  <2>1. /\ pc' = [pc EXCEPT ![u] = "over"] /\ pc[u] = "aborting"
        /\ UNCHANGED <<abandoned, hooked, current, client, contexts, mine, ws>>
    BY Zenon, <1>19 DEF AbortCut
  <2> QED
    BY ZenonT(60), <2>1
<1> QED
  BY Zenon, <1>1, <1>2, <1>3, <1>4, <1>5, <1>6, <1>7, <1>8, <1>9, <1>10, <1>11, <1>12, <1>13, <1>14,
     <1>15, <1>16, <1>17, <1>18, <1>19 DEF SynthesisNext, Step, synthesisVars, SocketCloses

\* Every step keeps the client owing only the current utterance's audio.
LEMMA OwedStep ==
  ASSUME MaxUtterances \in Nat, SynthesisInv, [SynthesisNext]_synthesisVars
  PROVE  OwedAgrees'
<1>0. Started /\ \A c \in Clients : AbortClient(c) => AbortEffect(c)
  BY Zenon, HasClient
<1> USE <1>0, Answers DEF Started, SynthesisInv, SynthesisTypeOK, InTurn, ClientAgrees, OwedAgrees, Running, Bound, Streaming, pipecat, service, local, wire, history, Goto, AtYield, AtAwait, Failing
<1>1. ASSUME NEW u \in Utterances, Dialed(u) PROVE OwedAgrees'
  BY Zenon, <1>1 DEF Dialed
<1>2. ASSUME NEW u \in Utterances, Greeted(u) PROVE OwedAgrees'
  BY ZenonT(60), <1>2 DEF Greeted
<1>3. ASSUME NEW u \in Utterances, ConnectFails(u) PROVE OwedAgrees'
  BY Zenon, <1>3 DEF ConnectFails, WireClose
<1>4. ASSUME NEW u \in Utterances, Refused(u) PROVE OwedAgrees'
  BY Zenon, <1>4 DEF AbortEffect, Refused
<1>5. ASSUME NEW u \in Utterances, Committed(u) PROVE OwedAgrees'
  <2>1. u = current /\ client = mine[u] /\ client # Null /\ owed[client] = Nothing
    BY Zenon, <1>5 DEF Committed
  <2>2. owed' = [owed EXCEPT ![client] = Owes(u)] /\ pc' = [pc EXCEPT ![u] = "starting"]
    BY Zenon, <1>5, <2>1 DEF Committed
  <2> QED
    BY <1>5, <2>1, <2>2 DEF Committed
<1>6. ASSUME NEW u \in Utterances, YieldStarted(u) PROVE OwedAgrees'
  BY Zenon, <1>6 DEF YieldStarted
<1>7. ASSUME NEW u \in Utterances, Resumed(u) PROVE OwedAgrees'
  BY Zenon, <1>7 DEF Resumed
<1>8. ASSUME NEW u \in Utterances, ReadDelta(u) PROVE OwedAgrees'
  BY Zenon, <1>8 DEF ReadDelta, Reads
<1>9. ASSUME NEW u \in Utterances, ReadDone(u) PROVE OwedAgrees'
  <2>1. u = current /\ client = mine[u] /\ client # Null /\ owed[client] = Owes(u)
    BY Zenon, <1>9 DEF ReadDone, Reads
  <2>2. owed' = [owed EXCEPT ![client] = Nothing] /\ pc' = [pc EXCEPT ![u] = "ending"]
    BY Zenon, <1>9, <2>1 DEF ReadDone
  <2> QED
    BY <1>9, <2>1, <2>2 DEF ReadDone
<1>10. ASSUME NEW u \in Utterances, YieldStopped(u) PROVE OwedAgrees'
  BY Zenon, <1>10 DEF YieldStopped
<1>11. ASSUME NEW u \in Utterances, Raises(u) PROVE OwedAgrees'
  <2>1. CASE u \in completed
    BY SMTT(30), <1>11, <2>1, Reports DEF Raises, Finally, Reported
  <2>2. CASE u \notin completed
    <3>1. AbortEffect(mine[u]) /\ u = current
      BY Zenon, <1>11, <2>2 DEF Raises, Finally
    <3>2. client' = Null
      BY Zenon, <3>1 DEF AbortEffect
    <3> QED
      BY Zenon, <1>11, <3>2 DEF Raises
  <2> QED
    BY Zenon, <2>1, <2>2
<1>12. ASSUME NEW u \in Utterances, Aborted(u) PROVE OwedAgrees'
  BY Zenon, <1>12 DEF Aborted
<1>13. ASSUME NEW u \in Utterances, CloseAbandoned(u) PROVE OwedAgrees'
  <2>1. CASE u \in completed
    BY SMTT(30), <1>13, <2>1, Reports DEF CloseAbandoned, Finally, Reported
  <2>2. CASE u \notin completed
    <3>1. AbortEffect(mine[u])
      BY Zenon, <1>13, <2>2 DEF CloseAbandoned, Finally
    <3>2. client' = Null \/ (client' = client /\ u # current)
      BY Zenon, <3>1 DEF AbortEffect
    <3> QED
      BY Zenon, <1>13, <2>2, <3>2 DEF CloseAbandoned, Finally
  <2> QED
    BY Zenon, <2>1, <2>2
<1>14. ASSUME NEW u \in Utterances, Start(u) PROVE OwedAgrees'
  <2>1. current' = u /\ u > current /\ UNCHANGED owed
    BY <1>14 DEF Start
  <2>2. CASE client # Null
    BY <1>14, <2>1, <2>2 DEF Start, MayStart
  <2>3. CASE client = Null
    BY SMTT(30), <1>14, <2>1, <2>3 DEF Start, Clients, Utterances
  <2> QED
    BY Zenon, <2>2, <2>3
<1>15. ASSUME NEW u \in Utterances, Abandon(u) PROVE OwedAgrees'
  BY Zenon, <1>15 DEF Abandon
<1>16. ASSUME NEW u \in Utterances, Interrupted(u) PROVE OwedAgrees'
  BY Zenon, <1>16 DEF AbortEffect, Interrupted, Fence
<1>17. CASE Cleanup
  BY Zenon, <1>17 DEF AbortEffect, Cleanup
<1>18. CASE UNCHANGED <<pc, current, client, made, owed>>
  BY Zenon, <1>18
<1>19. ASSUME NEW u \in Utterances, AbortCut(u) PROVE OwedAgrees'
  BY Zenon, <1>19 DEF AbortCut
<1> QED
  BY Zenon, <1>1, <1>2, <1>3, <1>4, <1>5, <1>6, <1>7, <1>8, <1>9, <1>10, <1>11, <1>12, <1>13, <1>14,
     <1>15, <1>16, <1>17, <1>18, <1>19 DEF SynthesisNext, Step, synthesisVars, SocketCloses

\* The strengthened invariant holds initially and every step keeps it.
LEMMA SynthesisInvariant == SynthesisSpec => []SynthesisInv
<1>1. SynthesisInit => SynthesisInv
  <2> SUFFICES ASSUME SynthesisInit PROVE SynthesisInv
    BY Zenon
  <2> USE SynthesisAssumption DEF SynthesisInit, Utterances, Clients, Null, AtYield, AtAwait, Failing
  <2>1. SynthesisTypeOK
    BY DEF SynthesisTypeOK
  <2>2. InTurn
    BY DEF InTurn
  <2>3. ClientAgrees /\ HeardOwn
    BY DEF ClientAgrees, HeardOwn, Bound, Streaming
  <2>4. OwedAgrees
    BY DEF OwedAgrees, Nothing, Streaming
  <2>5. Reported
    BY Zenon, Reports DEF Reported, Streaming, Silent
  <2> QED
    BY Zenon, <2>1, <2>2, <2>3, <2>4, <2>5 DEF SynthesisInv
<1>2. SynthesisInv /\ [SynthesisNext]_synthesisVars => SynthesisInv'
  BY Zenon, SynthesisAssumption, TypeStep, InTurnStep, ClientStep, OwedStep, ReportedStep, HeardStep DEF SynthesisInv
<1> QED
  BY <1>1, <1>2, PTL DEF SynthesisSpec

-----------------------------------------------------------------------------
(* Results *)

\* However many utterances are spoken and in whatever order the interruption
\* hook and the finalizers of abandoned generators run, an utterance hears only
\* its own audio and keeps its client until its stream is read or it is itself
\* interrupted (run_tts, on_audio_context_interrupted, _abort_client).
THEOREM OwnAudioOnlyAlways == SynthesisSpec => []OwnAudioOnly
<1>1. SynthesisInv => OwnAudioOnly
  <2> SUFFICES ASSUME SynthesisInv, NEW u \in Utterances
               PROVE  /\ heard[u] \subseteq {u}
                      /\ Running(u) /\ pc[u] \in Bound =>
                            mine[u] \in ws /\ client = mine[u] /\ contexts[u] = mine[u]
    BY Zenon DEF OwnAudioOnly, Bound, Streaming
  <2>1. Started
    BY Zenon, SynthesisAssumption, HasClient
  <2>2. ASSUME Running(u), pc[u] \in Bound
        PROVE  mine[u] \in ws /\ client = mine[u] /\ contexts[u] = mine[u]
    <3>1. u = current
      BY Zenon, <2>1, <2>2 DEF Started, Running, Bound, Streaming
    <3>2. client = mine[u] /\ client # Null
      BY Zenon, <2>1, <2>2, <3>1 DEF SynthesisInv, ClientAgrees, Started, Bound, Streaming
    <3> QED
      BY Zenon, <2>2, <3>1, <3>2 DEF SynthesisInv, ClientAgrees, Bound, Streaming
  <2> QED
    BY Zenon, <2>2 DEF SynthesisInv, HeardOwn
<1> QED
  BY SynthesisInvariant, <1>1, PTL

\* Every synthesis that was reported as started is reported over exactly once,
\* ended or of unknown delivery as its stream was read to the end or not
\* (on_event, _notify_delivery_unknown), unless a cancellation cut the abort of
\* its client short; no synthesis is reported over twice.
THEOREM OneTerminalAlways == SynthesisSpec => []OneTerminal
<1>1. SynthesisInv => OneTerminal
  <2> SUFFICES ASSUME SynthesisInv, NEW u \in Utterances
               PROVE  /\ \A m, n \in DOMAIN events[u] :
                            events[u][m] # "started" /\ events[u][n] # "started" => m = n
                      /\ pc[u] = "over" /\ events[u] # <<>> /\ u \notin cut =>
                            \E n \in DOMAIN events[u] :
                               events[u][n] = IF u \in completed THEN "ended" ELSE "unknown"
                      /\ u \in cut => /\ u \notin completed
                                      /\ \A n \in DOMAIN events[u] : events[u][n] = "started"
    BY Zenon DEF OneTerminal
  <2>1. CASE events[u] = Silent
    <3>1. u \notin completed
      BY Zenon, <2>1, Reports DEF SynthesisInv, Reported
    <3> QED
      BY <2>1, <3>1 DEF Silent
  <2>2. CASE events[u] = Begun
    <3>1. u \notin completed /\ ~(pc[u] = "over" /\ u \notin cut)
      BY Zenon, <2>2, Reports DEF SynthesisInv, Reported
    <3> QED
      BY <2>2, <3>1 DEF Begun
  <2>3. CASE events[u] = Ended
    <3>1. u \in completed /\ u \notin cut
      BY Zenon, <2>3, Reports DEF SynthesisInv, Reported
    <3>2. DOMAIN events[u] = 1..2 /\ events[u][1] = "started" /\ events[u][2] = "ended"
      BY <2>3 DEF Ended
    <3> QED
      BY <3>1, <3>2
  <2>4. CASE events[u] = Lost
    <3>1. u \notin completed /\ u \notin cut
      BY Zenon, <2>4, Reports DEF SynthesisInv, Reported
    <3>2. DOMAIN events[u] = 1..1 /\ events[u][1] = "unknown"
      BY <2>4 DEF Lost
    <3> QED
      BY <3>1, <3>2
  <2>5. CASE events[u] = BegunLost
    <3>1. u \notin completed /\ u \notin cut
      BY Zenon, <2>5, Reports DEF SynthesisInv, Reported
    <3>2. DOMAIN events[u] = 1..2 /\ events[u][1] = "started" /\ events[u][2] = "unknown"
      BY <2>5 DEF BegunLost
    <3> QED
      BY <3>1, <3>2
  <2> QED
    BY Zenon, <2>1, <2>2, <2>3, <2>4, <2>5 DEF SynthesisInv, Reported
<1> QED
  BY SynthesisInvariant, <1>1, PTL

=============================================================================
