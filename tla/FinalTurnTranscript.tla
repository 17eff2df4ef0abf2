------------------------- MODULE FinalTurnTranscript -------------------------
(***************************************************************************)
(* FinalTurnTranscriptProcessor (server/turns.py): it collects the         *)
(* transcripts of the user's speech segments, waits a grace after each     *)
(* semantic stop, and routes what was collected as one turn.               *)
(*                                                                         *)
(* Segments are numbered as they are spoken, and STT returns them in that  *)
(* order, each some time after it was spoken.  Frames reach the processor  *)
(* in two lanes of the frame pipeline (external): boundaries one after the *)
(* other, transcripts and the end of the pipeline beside them.             *)
(***************************************************************************)
EXTENDS Naturals, FiniteSets, Sequences

CONSTANTS MaxSegments,   \* bound on segments spoken
          MaxStops,      \* bound on semantic stops
          Slots,         \* max_pending_dispatches
          MaxChars       \* max_transcript_chars

TurnAssumption ==
  MaxSegments \in Nat /\ MaxStops \in Nat /\ Slots \in Nat \ {0} /\ MaxChars \in Nat \ {0}

Segments == 1..MaxSegments
Tasks == 1..MaxStops
Turn == Seq([of : Segments, kept : 1..MaxChars])

\* The length of a segment's transcript: one or two characters.
Chars(s) == 1 + (s % 2)

VARIABLES
  spoken, heard,  \* segments spoken, and transcribed, so far
  speaking,       \* the last boundary frame was a start
  fragments,      \* _fragments: the segments collected, with what is kept of each
  chars,          \* _fragment_chars
  stage,          \* per completion task: "none", "grace", "slot", "push" or "done"
  text,           \* what a completion task took from the fragments
  dropped,        \* completion tasks asked to cancel
  task,           \* _completion_task, 0 for None
  committed,      \* _completion_committed
  lane,           \* 0, or the committed completion the boundary lane awaits
  free,           \* free dispatch slots
  created,        \* dispatches created and not started, in order
  routed,         \* the turns given to on_final, in order
  running,        \* dispatches inside on_final
  ended,          \* an EndFrame or CancelFrame was seen
  closing         \* "no", "yes" (_closing) or "done"

input == <<spoken, heard, speaking>>
buffer == <<fragments, chars>>
completions == <<stage, text, dropped>>
slots == <<free, created, routed, running>>
vars == <<input, buffer, completions, task, committed, lane, slots, ended, closing>>

Alive(t) == stage[t] \in {"grace", "slot", "push"}

-----------------------------------------------------------------------------
(***************************************************************************)
(* Transcripts.                                                            *)
(***************************************************************************)

Separator == IF fragments = <<>> THEN 0 ELSE 1

\* _append_fragment: cut to what the turn still holds, dropped when nothing is.
Append_fragment(s) ==
  LET left == MaxChars - chars
      kept == IF Chars(s) <= left - Separator THEN Chars(s) ELSE left - Separator
  IN IF left <= Separator
     THEN UNCHANGED buffer
     ELSE fragments' = Append(fragments, [of |-> s, kept |-> kept]) /\ chars' = chars + Separator + kept

Transcription ==
  /\ closing # "done" /\ ~ended /\ heard < spoken
  /\ heard' = heard + 1
  /\ Append_fragment(heard + 1)
  /\ UNCHANGED <<spoken, speaking, completions, task, committed, lane, slots, ended, closing>>

\* The user speaks a segment.
Speak ==
  /\ speaking /\ spoken < MaxSegments /\ closing = "no" /\ ~ended
  /\ spoken' = spoken + 1
  /\ UNCHANGED <<heard, speaking, buffer, completions, task, committed, lane, slots, ended, closing>>

-----------------------------------------------------------------------------
(***************************************************************************)
(* The completion task.                                                    *)
(***************************************************************************)
\* Cancel_completion, without the fragments.
CancelCompletion ==
  /\ dropped' = IF task # 0 /\ Alive(task) THEN dropped \cup {task} ELSE dropped
  /\ task' = 0 /\ committed' = FALSE
  /\ UNCHANGED <<stage, text>>

HasSlot == free > 0

\* _dispatch_in_background once the slot is there, then the stop is pushed.  (Its
\* test of _closing never succeeds: cleanup cancels every task that waits.)
Dispatch(t, turn) ==
  /\ stage' = [stage EXCEPT ![t] = "push"]
  /\ free' = IF free > 0 THEN free - 1 ELSE 0
  /\ created' = Append(created, turn)
  /\ UNCHANGED <<routed, running>>

\* Slip: the fragments stay for the next turn.
TakenKept == UNCHANGED buffer

Taken == fragments' = <<>> /\ chars' = 0

\* The grace is over: the fragments become a turn.
GraceOver(t) ==
  /\ stage[t] = "grace" /\ t \notin dropped
  /\ IF fragments = <<>>
     THEN /\ stage' = [stage EXCEPT ![t] = "done"]
          /\ task' = 0
          /\ UNCHANGED <<buffer, text, committed, slots>>
     ELSE /\ Taken
          /\ committed' = TRUE
          /\ text' = [text EXCEPT ![t] = fragments]
          /\ IF HasSlot
             THEN Dispatch(t, fragments)
             ELSE stage' = [stage EXCEPT ![t] = "slot"] /\ UNCHANGED slots
          /\ UNCHANGED task
  /\ UNCHANGED <<input, dropped, lane, ended, closing>>

\* Slip: the slot is taken only by the frame lane that waits for the turn.
SlotGrantedIdle(t) ==
  /\ stage[t] = "slot" /\ t \notin dropped /\ HasSlot /\ lane = 0
  /\ Dispatch(t, text[t])
  /\ UNCHANGED <<input, buffer, text, dropped, task, committed, lane, ended, closing>>

SlotGranted(t) ==
  /\ stage[t] = "slot" /\ t \notin dropped /\ HasSlot
  /\ Dispatch(t, text[t])
  /\ UNCHANGED <<input, buffer, text, dropped, task, committed, lane, ended, closing>>

\* The finally block of _complete_after_grace.
Released(t) ==
  IF task = t THEN task' = 0 /\ committed' = FALSE ELSE UNCHANGED <<task, committed>>

\* The stop was pushed.
Pushed(t) ==
  /\ stage[t] = "push" /\ t \notin dropped
  /\ stage' = [stage EXCEPT ![t] = "done"]
  /\ Released(t)
  /\ UNCHANGED <<input, buffer, text, dropped, lane, slots, ended, closing>>

\* A cancellation arrives.
Cancelled(t) ==
  /\ t \in dropped /\ Alive(t)
  /\ stage' = [stage EXCEPT ![t] = "done"]
  /\ IF stage[t] = "grace" THEN UNCHANGED <<task, committed>> ELSE Released(t)
  /\ UNCHANGED <<input, buffer, text, dropped, lane, slots, ended, closing>>

-----------------------------------------------------------------------------
(***************************************************************************)
(* Boundaries.                                                             *)
(***************************************************************************)

\* Speech resumed: a completion that has not committed is dropped.
Resume ==
  IF task # 0 /\ ~committed THEN CancelCompletion ELSE UNCHANGED <<completions, task, committed>>

Started ==
  /\ lane = 0 /\ closing = "no" /\ ~ended /\ ~speaking
  /\ speaking' = TRUE
  /\ Resume
  /\ UNCHANGED <<spoken, heard, buffer, lane, slots, ended, closing>>

Fresh == {t \in Tasks : stage[t] = "none"}

\* A new completion task.
Arm(cancelled) ==
  LET t == CHOOSE u \in Fresh : \A v \in Fresh : u <= v
  IN /\ stage' = [stage EXCEPT ![t] = "grace"]
     /\ task' = t
     /\ dropped' = dropped \cup cancelled
     /\ UNCHANGED text

\* _arm_completion: a completion that committed is awaited first.
Stopped ==
  /\ lane = 0 /\ closing = "no" /\ ~ended /\ Fresh # {}
  /\ speaking' = FALSE
  /\ IF task # 0 /\ Alive(task) /\ committed
     THEN lane' = task /\ UNCHANGED <<completions, task, committed>>
     ELSE /\ Arm({task} \cap {t \in Tasks : Alive(t)})
          /\ committed' = FALSE /\ UNCHANGED lane
  /\ UNCHANGED <<spoken, heard, buffer, slots, ended, closing>>

\* The awaited completion is over.  One that was cancelled by the end of the
\* pipeline takes the boundary lane with it.
Joined ==
  /\ lane # 0 /\ ~Alive(lane)
  /\ lane' = 0
  /\ IF closing # "no" \/ lane \in dropped
     THEN UNCHANGED <<completions, task, committed>>
     ELSE Arm({}) /\ UNCHANGED committed
  /\ UNCHANGED <<input, buffer, slots, ended, closing>>

\* An EndFrame or a CancelFrame.
End ==
  /\ ~ended /\ closing = "no"
  /\ ended' = TRUE
  /\ fragments' = <<>> /\ chars' = 0
  /\ CancelCompletion
  /\ UNCHANGED <<input, lane, slots, closing>>

-----------------------------------------------------------------------------
(***************************************************************************)
(* Dispatches, and cleanup.                                                *)
(***************************************************************************)
\* A dispatch task starts: on_final is called with the turn.
DispatchStarts ==
  /\ created # <<>> /\ closing = "no"
  /\ routed' = Append(routed, Head(created)) /\ created' = Tail(created)
  /\ running' = running + 1
  /\ UNCHANGED <<input, buffer, completions, task, committed, lane, free, ended, closing>>

\* on_final returned or raised, or its cancellation arrived.
DispatchEnds ==
  /\ running > 0
  /\ running' = running - 1 /\ free' = free + 1
  /\ UNCHANGED <<input, buffer, completions, task, committed, lane, created, routed, ended, closing>>

\* A dispatch cancelled before it started.
DispatchDropped ==
  /\ created # <<>> /\ closing = "yes"
  /\ created' = Tail(created)
  /\ UNCHANGED <<input, buffer, completions, task, committed, lane, free, routed, running, ended,
                 closing>>

\* cleanup cancels every completion task that is not done.
AllLive == {t \in Tasks : Alive(t)}

Cleanup ==
  /\ closing = "no"
  /\ closing' = "yes"
  /\ dropped' = dropped \cup AllLive
  /\ task' = 0 /\ committed' = FALSE
  /\ UNCHANGED <<input, buffer, stage, text, lane, slots, ended>>

\* The tasks that were alive when it began are over.
CleanupEnds ==
  /\ closing = "yes" /\ created = <<>> /\ running = 0 /\ \A t \in dropped : ~Alive(t)
  /\ closing' = "done"
  /\ fragments' = <<>> /\ chars' = 0
  /\ UNCHANGED <<input, completions, task, committed, lane, slots, ended>>

Init ==
  /\ spoken = 0 /\ heard = 0 /\ speaking = FALSE
  /\ fragments = <<>> /\ chars = 0
  /\ stage = [t \in Tasks |-> "none"] /\ text = [t \in Tasks |-> <<>>] /\ dropped = {}
  /\ task = 0 /\ committed = FALSE /\ lane = 0
  /\ free = Slots /\ created = <<>> /\ routed = <<>> /\ running = 0
  /\ ended = FALSE /\ closing = "no"

Completion(t) == SlotGranted(t) \/ Pushed(t) \/ Cancelled(t)

Next ==
  \/ Speak \/ Transcription \/ Started \/ Stopped \/ Joined \/ End
  \/ \E t \in Tasks : GraceOver(t) \/ Completion(t)
  \/ DispatchStarts \/ DispatchEnds \/ DispatchDropped \/ Cleanup \/ CleanupEnds

(***************************************************************************)
(* Tasks that can run do, graces expire, and turns are handled to the end. *)
(***************************************************************************)
Fairness ==
  /\ WF_vars(Joined) /\ WF_vars(DispatchStarts) /\ WF_vars(DispatchEnds)
  /\ WF_vars(DispatchDropped) /\ WF_vars(CleanupEnds)
  /\ \A t \in Tasks : WF_vars(GraceOver(t)) /\ WF_vars(Completion(t))

Spec == Init /\ [][Next]_vars /\ Fairness

-----------------------------------------------------------------------------
(***************************************************************************)
(* Properties.                                                             *)
(***************************************************************************)
\* Every variable has its type.
TypeOK ==
  /\ spoken \in 0..MaxSegments /\ heard \in 0..spoken /\ speaking \in BOOLEAN
  /\ fragments \in Turn /\ chars \in Nat
  /\ stage \in [Tasks -> {"none", "grace", "slot", "push", "done"}]
  /\ text \in [Tasks -> Turn] /\ dropped \subseteq Tasks
  /\ task \in 0..MaxStops /\ committed \in BOOLEAN /\ lane \in 0..MaxStops
  /\ free \in 0..Slots /\ running \in 0..Slots
  /\ created \in Seq(Turn) /\ routed \in Seq(Turn)
  /\ ended \in BOOLEAN /\ closing \in {"no", "yes", "done"}

\* What the current completion took and waits to dispatch.
Waiting == IF task # 0 /\ stage[task] = "slot" THEN text[task] ELSE <<>>

\* What the turns say, one after the other.
Said(turns) ==
  LET said[n \in 1..Len(turns)] == IF n = 1 THEN turns[n] ELSE said[n - 1] \o turns[n]
  IN IF Len(turns) = 0 THEN <<>> ELSE said[Len(turns)]

\* Everything heard, in the order it would be routed.
Heard == Said(routed \o created) \o Waiting \o fragments

\* Until the pipeline ends, what was transcribed is routed exactly once and in
\* the order it was said: nothing is lost between the fragments, the committed
\* completion, its wait for a slot and the dispatch (no segment is cut here).
RoutedOnceInOrder ==
  ~ended /\ closing = "no" /\ MaxChars >= 3 * MaxSegments =>
    [i \in 1..Len(Heard) |-> Heard[i].of] = [i \in 1..heard |-> i]

\* A stop that arrives while the turn before it waits for a slot is served.
StopIsServed == lane # 0 ~> lane = 0

-----------------------------------------------------------------------------
(* What a comment, a document or a test says, and the code does not do. *)

\* What docs/architecture.md says: the acoustic segments are combined into one
\* semantic user turn, so a turn leaves out no segment said before its stop.
SegmentsStayTogether ==
  closing = "no" /\ ~ended /\ ~speaking /\ lane = 0 /\ task # 0 /\ committed => fragments = <<>>
=============================================================================
