------------------------------- MODULE MCTurns -------------------------------
(***************************************************************************)
(* The handling of turns on small instances: the turn handlers themselves  *)
(* (a compound turn of two items and a control turn that may cancel it),   *)
(* the clarification dialogue that routes a turn (PendingDialogue), and    *)
(* the recorders that account for it (TurnRecorders).  The modules share   *)
(* no variable; a behaviour is one of `part' and the others rest in their  *)
(* initial state.                                                          *)
(***************************************************************************)
EXTENDS TurnHandling, TLC

CONSTANTS Questions, DialogueTurns, NoQuestion,      \* PendingDialogue
          MaxCandidates, Timeout, MaxTime, MaxEpoch,
          RecordedTurns, RecordedWidth,              \* TurnRecorders
          Children

VARIABLES
  part,
  \* PendingDialogue
  candidates, pending, expires, now, epoch, active, closed, question, origin, turn,
  awaited, answers, heard, latest,
  \* TurnRecorders
  place, answer, book, label, work, ending, cancelling, claim, registry, background,
  calls, cancelled, host

\* The recorders of different turns share nothing but the host.
WidthOfTurn == [t \in RecordedTurns |-> Children]

Dialogue == INSTANCE PendingDialogue WITH Turns <- DialogueTurns

Recorders == INSTANCE TurnRecorders
               WITH Turns <- RecordedTurns, Width <- RecordedWidth,
                    pc <- place, task <- work, kind <- ending, stopping <- cancelling

ASSUME TurnsAssumption == Dialogue!DialogueAssumption /\ Recorders!WidthAssumption

\* No step or property orders the questions, or the turns that answer them.
Interchangeable == Permutations(Questions) \cup Permutations(DialogueTurns)

dialogueVars == <<candidates, pending, expires, now, epoch, active, closed, question,
                  origin, turn, awaited, answers, heard, latest>>
recorderVars == <<place, answer, book, label, work, ending, cancelling, claim, registry,
                  background, calls, cancelled, host>>

TurnsInit ==
  /\ part \in {"turns", "dialogue", "recorders"}
  /\ Init /\ Dialogue!Init /\ Recorders!Init
  /\ part # "turns" => capable

TurnsNext ==
  \/ part = "turns" /\ Next /\ UNCHANGED <<part, dialogueVars, recorderVars>>
  \/ part = "dialogue" /\ Dialogue!Next /\ UNCHANGED <<part, vars, recorderVars>>
  \/ part = "recorders" /\ Recorders!Next /\ UNCHANGED <<part, vars, dialogueVars>>

TurnsSpec == TurnsInit /\ [][TurnsNext]_<<part, vars, dialogueVars, recorderVars>>

\* PendingDialogue: a turn continues only a committed question that has not
\* expired and that no other turn continues.
CapturesOnlyOpen == Dialogue!CapturesOnlyOpen
\* TurnRecorders: a turn's record adds up to the records of its work items.
TurnAddsUp == Recorders!TurnAddsUp
=============================================================================
