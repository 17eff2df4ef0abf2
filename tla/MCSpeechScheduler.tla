-------------------------- MODULE MCSpeechScheduler --------------------------
(***************************************************************************)
(* The two sides of the speech slot on small instances: the scheduler that *)
(* fills it, with two work items, one of them with room for a replay, and  *)
(* an early ack on a lane that may be torn down, aborted or replaced; and  *)
(* the local TTS service that speaks.  They share no variable (what joins  *)
(* them is SpeechLifecycle), so a behaviour is one of `part' and the other *)
(* rests in its initial state.                                             *)
(***************************************************************************)
EXTENDS SpeechScheduler, LocalSynthesis, TLC

CONSTANTS r1, r1b, n2, a1

VARIABLES
  part

ItemKey == (r1 :> "work-1") @@ (r1b :> "work-1") @@ (n2 :> "work-2") @@ (a1 :> "ack-1")
ItemRole == (r1 :> "result") @@ (r1b :> "result") @@ (n2 :> "timeout_notice")
            @@ (a1 :> "ack")

\* The utterances of one work item are interchangeable.
Symmetry == Permutations({r1, r1b})

SpeechInit ==
  /\ part \in {"scheduler", "synthesis"}
  /\ Init /\ SynthesisInit
  /\ part = "synthesis" => tts

SpeechNext ==
  \/ part = "scheduler" /\ Next /\ UNCHANGED <<part, synthesisVars>>
  \/ part = "synthesis" /\ SynthesisNext /\ UNCHANGED <<part, vars>>

SpeechSpec == SpeechInit /\ [][SpeechNext]_<<part, vars, synthesisVars>>
=============================================================================
