--------------------------- MODULE MCQueueLiveness ---------------------------
(***************************************************************************)
(* What must eventually happen to queued speech, on small instances: three *)
(* work items that compete for the slot (SpeechScheduler), and a turn      *)
(* whose first ack may never leave the slot (TurnAckLedger).  `part' says  *)
(* which of the two a behaviour is.                                        *)
(***************************************************************************)
EXTENDS TurnAckLedger, TLC

CONSTANTS r1, n2, r3, a1, a1b

VARIABLE part

ItemKey == (r1 :> "work-1") @@ (n2 :> "work-2") @@ (r3 :> "work-3")
           @@ (a1 :> "ack-1") @@ (a1b :> "ack-1")
ItemRole == (r1 :> "result") @@ (n2 :> "timeout_notice") @@ (r3 :> "result")
            @@ (a1 :> "ack") @@ (a1b :> "ack")

QueueInit == LedgerInit /\ part \in {"work", "acks"}

QueueNext ==
  \/ part = "work" /\ Next /\ Acks(used') = {} /\ UNCHANGED <<part, ledgerVars>>
  \/ part = "acks" /\ LedgerNext /\ used' \subseteq Acks(Items) /\ UNCHANGED part

\* Fairness and ChainFairness, each for its part.
QueueFairness ==
  /\ \A i \in Items \ Acks(Items) :
       /\ WF_vars(part = "work" /\ (SpeakReturns(i) \/ SpeakRaises(i)))
       /\ WF_vars(part = "work" /\ FailRelease(i))
       /\ WF_vars(part = "work" /\ Advance(i))
       /\ WF_vars(part = "work" /\ Notify(i))
  /\ WF_vars(part = "work" /\ Settle)
  /\ WF_vars(part = "work" /\ EndTeardown)
  /\ WF_vars(part = "work" /\ BeginShutdown)
  /\ WF_vars(part = "work" /\ ConnectionClosed)
  /\ \A t \in AckTurns :
       WF_allVars(/\ part = "acks"
                  /\ \E c \in chains : c.turn = t /\ (ChainAdmit(c) \/ ChainWakes(c)))
  /\ WF_allVars(/\ part = "acks"
                /\ \E c \in chains : ChainSpeaks(c) \/ ChainFails(c)
                     \/ (c.at = "speak" /\ SpeakRaises(c.ack) /\ SchedulerStep))

QueueSpec == QueueInit /\ [][QueueNext]_<<allVars, part>> /\ QueueFairness
=============================================================================
