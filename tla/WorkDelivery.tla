---------------------------- MODULE WorkDelivery -----------------------------
(***************************************************************************)
(* What the coordinator promises the turn that hands it work: an item is   *)
(* answered in the foreground once, or goes on in the background and its   *)
(* late result is delivered once.  Only the end of the turn that submitted *)
(* it, or the end of the session, lets an item go without an answer.       *)
(***************************************************************************)
CONSTANTS Items

VARIABLES answer,    \* what became of an item
          closing    \* the session is shutting down

Answers == {"none", "working", "answered", "background", "delivered", "dropped"}

Init == answer = [i \in Items |-> "none"] /\ closing = FALSE

\* A turn hands in the items of S; those in refused are answered on the spot.
Submit(S, refused) ==
    /\ ~closing
    /\ \A i \in S : answer[i] = "none"
    /\ refused \subseteq S
    /\ answer' = [i \in Items |->
                    IF i \in refused THEN "answered"
                    ELSE IF i \in S THEN "working" ELSE answer[i]]
    /\ UNCHANGED closing

\* The turn takes its answers; the items of late go on in the background.
Collect(S, late) ==
    /\ late \subseteq S
    /\ late # {} => ~closing
    /\ \A i \in S : answer[i] = "working"
    /\ answer' = [i \in Items |->
                    IF i \in late THEN "background"
                    ELSE IF i \in S THEN "answered" ELSE answer[i]]
    /\ UNCHANGED closing

\* The turn is cancelled before it took its answers.
Drop(S) ==
    /\ \A i \in S : answer[i] = "working"
    /\ answer' = [i \in Items |-> IF i \in S THEN "dropped" ELSE answer[i]]
    /\ UNCHANGED closing

\* The late result is handed to its turn's callback.
Deliver(i) ==
    /\ ~closing
    /\ answer[i] = "background"
    /\ answer' = [answer EXCEPT ![i] = "delivered"]
    /\ UNCHANGED closing

\* The session closes; turns that still wait lose their answers with it.
Close ==
    /\ ~closing
    /\ closing' = TRUE
    /\ answer' \in [Items -> Answers]
    /\ \A i \in Items : answer'[i] = answer[i] \/ (answer[i] = "working" /\ answer'[i] = "dropped")

Next ==
    \/ \E S \in SUBSET Items :
        \/ \E R \in SUBSET S : Submit(S, R) \/ Collect(S, R)
        \/ Drop(S)
    \/ \E i \in Items : Deliver(i)
    \/ Close

Spec == Init /\ [][Next]_<<answer, closing>>
=============================================================================
