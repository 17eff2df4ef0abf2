--------------------------- MODULE MCTurnAckLedger ---------------------------
(* TurnAckLedger on one other utterance and the acks of one or two turns.     *)
EXTENDS TurnAckLedger, TLC

CONSTANTS r1, a1, a1b, a1c, a2

ItemKey == (r1 :> "work-1") @@ (a1 :> "ack-1") @@ (a1b :> "ack-1")
           @@ (a1c :> "ack-1") @@ (a2 :> "ack-2")
ItemRole == (r1 :> "result") @@ (a1 :> "ack") @@ (a1b :> "ack")
            @@ (a1c :> "ack") @@ (a2 :> "ack")

\* The acks of one turn are interchangeable.
TurnAcks == {a1, a1b, a1c}
Symmetry == Permutations(TurnAcks)

\* The histories spoken and abandoned decide no step, and of the counter of claims
\* only that the next number is larger than every one in use.
View == <<vars, phase, latch, generation, chains>>

LaneStaysUp == tts /\ epoch = "current" /\ ~tearing

\* The second turn has done no more than claim its place in the map.
OnlyClaims ==
    /\ {phase[t] : t \in AckTurns} \subseteq {"new", "open"} /\ (a2 \in used => a2 \in Queued)
    /\ \A c \in chains : c.turn = "ack-2" => c.at = "admit"

\* Five situations: a turn that acknowledges twice, beside another utterance or on
\* a lane that may go away at any time; one ack, another utterance and such a lane;
\* two turns that share the map of generations; a turn with three acks; and one
\* that is evicted from the map while it has several chains.
Situations ==
    LET acks == Cardinality(used \cap TurnAcks)
        alone == phase["ack-2"] = "new"
    IN  \/ alone /\ acks <= 2 /\ (r1 \notin used \/ (LaneStaysUp /\ paused = <<>>))
        \/ alone /\ acks <= 1
        \/ r1 \notin used /\ acks <= 1 /\ LaneStaysUp
        \/ alone /\ r1 \notin used /\ LaneStaysUp
        \/ OnlyClaims /\ r1 \notin used /\ LaneStaysUp /\ paused = <<>>
=============================================================================
