------------------------------- MODULE MCWork --------------------------------
(***************************************************************************)
(* The work of a turn on small instances: the transcript processor that    *)
(* makes the turn (FinalTurnTranscript), the coordinator that owns its     *)
(* tasks (WorkItemCoordinator) and the queue of the worker that runs them  *)
(* (WorkerMailbox).  The three share no variable, so a property of one     *)
(* does not depend on the steps of the others; a behaviour here is one of  *)
(* `part', and the other two rest in their initial state.                  *)
(***************************************************************************)
EXTENDS WorkItemCoordinator, TLC

CONSTANTS c1, c2, d1,
          Direct, NoItem,                            \* WorkerMailbox
          MaxSegments, MaxStops, Slots, MaxChars     \* FinalTurnTranscript

VARIABLES
  part,
  \* WorkerMailbox
  stage, ended, ready, tail, waitsFor, mailTail, previous, cancelled, cancels,
  accepted, entries, starts,
  \* FinalTurnTranscript
  spoken, heard, speaking, fragments, chars, completion, text, dropped,
  completionTask, committed, lane, free, created, routed, running, pipelineEnded,
  closing

\* A compound turn with one item more than a turn may have, and an ordinary search
\* for the item that was cut off.
ItemsOfTurn == (1 :> <<c1, c2, d1>>) @@ (2 :> <<d1>>)

Mailbox == INSTANCE WorkerMailbox WITH asked <- cancels

Transcript == INSTANCE FinalTurnTranscript
                WITH stage <- completion, task <- completionTask, ended <- pipelineEnded

ASSUME WorkAssumption == Mailbox!RoutesAssumption /\ Transcript!TurnAssumption

mailboxVars == <<stage, ended, ready, tail, waitsFor, mailTail, previous, cancelled,
                 cancels, accepted, entries, starts>>

transcriptVars == <<spoken, heard, speaking, fragments, chars, completion, text,
                    dropped, completionTask, committed, lane, free, created, routed,
                    running, pipelineEnded, closing>>

all == <<part, vars, mailboxVars, transcriptVars>>

WorkInit ==
  /\ part \in {"coordinator", "mailbox", "transcript"}
  /\ Init /\ Mailbox!Init /\ Transcript!Init

WorkNext ==
  \/ part = "coordinator" /\ Next /\ UNCHANGED <<part, mailboxVars, transcriptVars>>
  \/ part = "mailbox" /\ Mailbox!Next /\ UNCHANGED <<part, vars, transcriptVars>>
  \/ part = "transcript" /\ Transcript!Next /\ UNCHANGED <<part, vars, mailboxVars>>

\* The fairness of each component, for the part that runs.
WorkFairness ==
  /\ WF_vars(part = "coordinator" /\ Close)
  /\ \A i \in Items : /\ WF_vars(part = "coordinator" /\ TaskEnds(i))
                      /\ WF_vars(part = "coordinator" /\ TaskCallbacks(i))
                      /\ WF_mailboxVars(part = "mailbox" /\ Mailbox!ProviderAnswers(i))
  /\ \A t \in Turns : /\ WF_vars(part = "coordinator" /\ WaitReturns(t))
                      /\ WF_vars(part = "coordinator" /\ Collect(t))
                      /\ WF_vars(part = "coordinator" /\ Raise(t))
  /\ WF_mailboxVars(part = "mailbox" /\ Mailbox!Step)
  /\ WF_transcriptVars(part = "transcript" /\ Transcript!Joined)
  /\ WF_transcriptVars(part = "transcript" /\ Transcript!DispatchStarts)
  /\ WF_transcriptVars(part = "transcript" /\ Transcript!DispatchEnds)
  /\ WF_transcriptVars(part = "transcript" /\ Transcript!DispatchDropped)
  /\ WF_transcriptVars(part = "transcript" /\ Transcript!CleanupEnds)
  /\ \A t \in Transcript!Tasks : /\ WF_transcriptVars(part = "transcript" /\ Transcript!GraceOver(t))
                                 /\ WF_transcriptVars(part = "transcript" /\ Transcript!Completion(t))

WorkSpec == WorkInit /\ [][WorkNext]_all /\ WorkFairness

\* WorkerMailbox: operations of one worker overlap only after the one cancel it names.
SerialUnlessDropped == Mailbox!SerialUnlessDropped
\* WorkerMailbox: a failed or cancelled operation does not poison the mailbox;
\* the items behind it run their own.
NotPoisoned == Mailbox!NotPoisoned
\* FinalTurnTranscript: what was transcribed is routed once and in order.
RoutedOnceInOrder == Transcript!RoutedOnceInOrder
\* FinalTurnTranscript: a stop that finds the dispatch slots taken is served.
StopIsServed == Transcript!StopIsServed
=============================================================================
