---------------------------- MODULE PendingDialogue ----------------------------
(***************************************************************************)
(* A worker's clarifying question, from the moment the worker raises it to *)
(* the turn that answers it: the clarification candidates of               *)
(* server/worker_projection.py, the commit that turns a candidate into the *)
(* session's pending dialogue (server/pipeline.py), and the arbitration of *)
(* the next transcript (server/work_item_coordinator.py), which runs in a  *)
(* thread beside the event loop.                                           *)
(***************************************************************************)
EXTENDS Integers, Sequences, FiniteSets

CONSTANTS Questions, Turns, NoQuestion,
          MaxCandidates, \* MAX_CLARIFICATION_CANDIDATES
          Timeout,       \* pending_dialogue_timeout_seconds
          MaxTime, MaxEpoch

DialogueAssumption ==
  /\ NoQuestion \notin Questions
  /\ MaxCandidates \in Nat \ {0} /\ Timeout \in Nat \ {0}
  /\ MaxTime \in Nat /\ MaxEpoch \in Nat \ {0}

VARIABLES
  candidates, \* _clarification_candidates, oldest first
  pending,    \* _pending[session], or NoQuestion
  expires,    \* expires_at of each question that became pending
  now,        \* the coordinator's clock
  epoch,      \* the connection epoch
  active,     \* that connection is active
  closed,     \* SessionHost and coordinator have shut down
  question,   \* per question: "none", "raised", "committed" or "dropped"
  origin,     \* per question, the origin epoch of the turn that raised it
  turn,       \* per turn: "none", "arbitrating", then its outcome
  awaited,    \* turns whose handler still waits for its thread
  \* histories
  answers,    \* per turn, the question it continues
  heard,      \* per turn, the questions committed when it was spoken
  latest      \* the last question that became pending

dialogueVars == <<candidates, pending, expires, question, origin, latest>>
turnVars == <<turn, awaited, answers, heard>>
hostVars == <<now, epoch, active, closed>>

vars == <<dialogueVars, turnVars, hostVars>>

Init ==
  /\ candidates = <<>> /\ pending = NoQuestion
  /\ expires = [q \in Questions |-> 0]
  /\ now = 0 /\ epoch = 1 /\ active = TRUE /\ closed = FALSE
  /\ question = [q \in Questions |-> "none"]
  /\ origin = [q \in Questions |-> 0]
  /\ turn = [t \in Turns |-> "none"] /\ awaited = {}
  /\ answers = [t \in Turns |-> NoQuestion]
  /\ heard = [t \in Turns |-> {}]
  /\ latest = NoQuestion

\* SessionHost.accepts.
Accepts(e) == ~closed /\ active /\ e = epoch

Dropped(s, q) == SelectSeq(s, LAMBDA c : c # q)

Retained(q) == \E n \in DOMAIN candidates : candidates[n] = q

-----------------------------------------------------------------------------
(***************************************************************************)
(* The question.                                                           *)
(***************************************************************************)

Evict(s) == IF Len(s) > MaxCandidates THEN Tail(s) ELSE s

\* clarification_result, for a WorkerClarify of a turn of this connection.
Clarify(q) ==
  /\ question[q] = "none" /\ ~closed
  /\ question' = [question EXCEPT ![q] = "raised"]
  /\ origin' = [origin EXCEPT ![q] = epoch]
  /\ candidates' = Evict(Append(candidates, q))
  /\ UNCHANGED <<pending, expires, latest, turnVars, hostVars>>

BecomesPending(q) == Retained(q) /\ Accepts(origin[q])

\* _commit_result_state, and the add_worker_clarification it ends in.
Commit(q) ==
  /\ question[q] = "raised"
  /\ question' = [question EXCEPT ![q] = "committed"]
  /\ candidates' = Dropped(candidates, q)
  /\ IF BecomesPending(q)
     THEN /\ pending' = q /\ latest' = q
          /\ expires' = [expires EXCEPT ![q] = now + Timeout]
     ELSE UNCHANGED <<pending, latest, expires>>
  /\ UNCHANGED <<origin, turnVars, hostVars>>

\* A cancelled work item: its result is suppressed and its candidate popped.
Suppress(q) ==
  /\ question[q] = "raised"
  /\ question' = [question EXCEPT ![q] = "dropped"]
  /\ candidates' = Dropped(candidates, q)
  /\ UNCHANGED <<pending, expires, origin, latest, turnVars, hostVars>>

\* The turn ends before it commits: the candidate stays behind.
Abandon(q) ==
  /\ question[q] = "raised"
  /\ question' = [question EXCEPT ![q] = "dropped"]
  /\ UNCHANGED <<candidates, pending, expires, origin, latest, turnVars, hostVars>>

-----------------------------------------------------------------------------
(***************************************************************************)
(* The next transcript.                                                    *)
(***************************************************************************)
\* _handle_transcript_impl up to the thread it starts.
Transcript(t) ==
  /\ turn[t] = "none" /\ Accepts(epoch)
  /\ turn' = [turn EXCEPT ![t] = "arbitrating"]
  /\ awaited' = awaited \cup {t}
  /\ heard' = [heard EXCEPT ![t] = {q \in Questions : question[q] = "committed"}]
  /\ UNCHANGED <<answers, dialogueVars, hostVars>>

\* pending(): an expired question is dropped as it is read.
Live == IF pending # NoQuestion /\ expires[pending] <= now THEN NoQuestion ELSE pending

\* Slip: a question that captured a turn stays pending.
TakeKept(t) ==
  /\ pending' = Live
  /\ answers' = [answers EXCEPT ![t] = Live]

Take(t) ==
  /\ pending' = NoQuestion
  /\ answers' = [answers EXCEPT ![t] = Live]

Leave == pending' = Live /\ UNCHANGED answers

\* arbitrate, in its thread: everything it does to the dialogue happens under
\* _pending_lock.  The intent is the classification of the transcript.
Arbitrate(t, intent) ==
  /\ turn[t] = "arbitrating" /\ ~closed
  /\ IF intent \in {"consent", "multi_intent", "continue_pending"} /\ Live # NoQuestion
     THEN Take(t) /\ turn' = [turn EXCEPT ![t] = "continued"]
     ELSE /\ Leave
          /\ turn' = [turn EXCEPT ![t] = IF intent \in {"control", "consent"}
                                         THEN "control" ELSE "routed"]
  /\ awaited' = awaited \ {t}
  /\ UNCHANGED <<heard, candidates, expires, question, origin, latest, hostVars>>

\* arbitrate after shutdown: _ensure_open raises.
ArbitrateClosed(t) ==
  /\ turn[t] = "arbitrating" /\ closed
  /\ turn' = [turn EXCEPT ![t] = "failed"]
  /\ awaited' = awaited \ {t}
  /\ UNCHANGED <<answers, heard, dialogueVars, hostVars>>

\* The handler is cancelled; its thread runs on.
CancelTurn(t) ==
  /\ t \in awaited
  /\ awaited' = awaited \ {t}
  /\ UNCHANGED <<turn, answers, heard, dialogueVars, hostVars>>

-----------------------------------------------------------------------------
Tick ==
  /\ now < MaxTime
  /\ now' = now + 1
  /\ UNCHANGED <<epoch, active, closed, dialogueVars, turnVars>>

Disconnect ==
  /\ active /\ ~closed
  /\ active' = FALSE
  /\ UNCHANGED <<now, epoch, closed, dialogueVars, turnVars>>

Connect ==
  /\ epoch < MaxEpoch /\ ~closed
  /\ epoch' = epoch + 1 /\ active' = TRUE
  /\ UNCHANGED <<now, closed, dialogueVars, turnVars>>

\* SessionHost.shutdown with the coordinator's: both maps are cleared.
Shutdown ==
  /\ ~closed
  /\ closed' = TRUE
  /\ candidates' = <<>> /\ pending' = NoQuestion
  /\ UNCHANGED <<expires, question, origin, latest, turnVars, now, epoch, active>>

Intents == {"control", "consent", "multi_intent", "continue_pending", "new_topic"}

Next ==
  \/ \E q \in Questions : Clarify(q) \/ Commit(q) \/ Suppress(q) \/ Abandon(q)
  \/ \E t \in Turns : \/ Transcript(t) \/ ArbitrateClosed(t) \/ CancelTurn(t)
                      \/ \E intent \in Intents : Arbitrate(t, intent)
  \/ Tick \/ Disconnect \/ Connect \/ Shutdown

Spec == Init /\ [][Next]_vars

-----------------------------------------------------------------------------
(***************************************************************************)
(* Properties.                                                             *)
(***************************************************************************)
TypeOK ==
  /\ candidates \in Seq(Questions) /\ Len(candidates) <= MaxCandidates
  /\ pending \in Questions \cup {NoQuestion}
  /\ expires \in [Questions -> 0..(MaxTime + Timeout)]
  /\ now \in 0..MaxTime /\ epoch \in 1..MaxEpoch
  /\ active \in BOOLEAN /\ closed \in BOOLEAN
  /\ question \in [Questions -> {"none", "raised", "committed", "dropped"}]
  /\ origin \in [Questions -> 0..MaxEpoch]
  /\ turn \in [Turns -> {"none", "arbitrating", "control", "routed", "continued", "failed"}]
  /\ awaited \subseteq Turns
  /\ answers \in [Turns -> Questions \cup {NoQuestion}]
  /\ heard \in [Turns -> SUBSET Questions]
  /\ latest \in Questions \cup {NoQuestion}

\* A turn continues only a question that was put to the user, on the
\* connection that was current then, and that has not expired: a suppressed,
\* abandoned or evicted question captures nothing (_commit_result_state and
\* pending()).  Of two turns arbitrated at once, at most one continues it.
CapturesOnlyOpen ==
  [][\A t \in Turns : answers'[t] # answers[t] =>
       /\ question[answers'[t]] = "committed"
       /\ now < expires[answers'[t]]
       /\ \A u \in Turns \ {t} : answers'[u] # answers'[t]]_vars

-----------------------------------------------------------------------------
(* What a comment, a document or a test says, and the code does not do. *)

\* A turn continues only a question the user had been asked when they spoke.
AnswersWhatWasHeard == \A t \in Turns : answers[t] # NoQuestion => answers[t] \in heard[t]
=============================================================================
